---------------------------- MODULE Spec2Model ----------------------------
(***************************************************************************)
(* Candidate-discovery pipeline of Watt-news: URL normalisation and        *)
(* dedup (app/research/dedup.py), triage (app/research/triage.py),         *)
(* enrichment (app/research/enrichment.py), scrapers                       *)
(* (app/research/scrapers.py) and the research run                         *)
(* (app/tasks.py, research_publication_sources).                           *)
(***************************************************************************)
EXTENDS Integers, Sequences, FiniteSets, TLC

VARIABLES
    nurl,       \* dedup: the URL handed to normalize_url / url_hash
    nvar,       \* dedup: a second URL, obtained from nurl by edits
    nedits,     \* dedup: the kinds of edit that turned nurl into nvar
    nres,       \* dedup: results of the normalize/hash calls, or NoRes
    youtube_blocked,  \* enrichment: _youtube_blocked, the process-wide breaker
    ecalls,     \* enrichment: number of enrich_item calls made so far
    eres,       \* enrichment: what the last enrich_item call did, or NoRes
    titems,     \* triage: the URLs of the items handed to triage_items
    tkey,       \* triage: whether ANTHROPIC_API_KEY is configured
    tpc,        \* triage: where the triage_items call stands
    tstart,     \* triage: index (from 1) of the first item of the batch
    tbudget,    \* triage: fetch_budget handed to the current _triage_batch
    tturn,      \* triage: iterations of the conversation loop done so far
    tused,      \* triage: fetches_used of the current batch
    tcalls,     \* triage: LLM requests made for the current batch
    ttotal,     \* triage: total_fetches
    tresults,   \* triage: results, the verdict records gathered so far
    tcause,     \* triage: per item, what the LLM exchange gave for it
    tblog,      \* triage: per finished batch, how it ended
    traised,    \* triage: an exception left triage_items
    tfetched,   \* triage: the page fetches made so far in this triage_items call
    trefused,   \* triage: fetch requests of the last tool-use answer that got the notice
    slog,       \* scrapers: what each scrape(source) call made so far did
    world,      \* run: the publication, its sources and what they yield
    store,      \* run: the committed candidate rows of the publication
    rpc,        \* run: where research_publication_sources stands
    run,        \* run: number of task executions started so far
    attempt,    \* run: self.request.retries of the current execution
    srcIdx,     \* run: index of the source being scanned
    ritems,     \* run: the items the current source's scraper returned
    itemIdx,    \* run: index of the item being processed
    pending,    \* run: pending_items
    seen,       \* run: seen_hashes
    verdict_map,  \* run: verdict_map, url -> verdict record
    session,    \* run: the candidate rows added to the open transaction
    stats,      \* run: stats
    disc,       \* run: what phase 1 did with each item discovered, this run
    p3,         \* run: what phase 3 did with each pending item, this run
    faults,     \* run: exceptions raised so far (item processing, database, flush)
    foreign,    \* run: rows committed by others (another worker, the CLI)
    cclock,     \* crawl: time.monotonic(), in seconds
    clast,      \* crawl: _firecrawl_last_call
    cheld,      \* crawl: the thread holding _firecrawl_lock, or 0
    cthr,       \* crawl: per thread, where its crawl request stands
    clog,       \* crawl: the requests sent to the crawl API so far
    sc_args,    \* scoring: the arguments of the last score_candidate call
    sc_ret,     \* scoring: what the call returned
    dp_args,    \* data: the arguments of the last _discover_via_pattern call
    dp_ret,     \* data: the probes it made and the reports it returned
    cands,      \* api: the candidate table, by id
    api_call,   \* api: the last status-update request
    api_ret,    \* api: the response to it
    api_calls,  \* api: the number of requests served
    rtasks,     \* scheduler: per publication, where its research task stands
    fcall,      \* crawl scrape: one _firecrawl_scrape call, its attempts and its result
    bf_args,    \* date backfill: the undated item, its verdict and the dates found for it
    bf_ret,     \* date backfill: the date and the scores of the candidate
    ang_args,   \* story angles: the document URL and the number of angles extracted
    ang_ret,    \* story angles: the URLs of the items made of them
    cfg_db,     \* source config: the config column of the source's row
    cfg_sess,   \* source config: each run's session copy of the config
    cfg_log,    \* source config: the last value committed for each key and the writes made
    sched       \* dispatch: one publication, the clock, its research tasks queued and running

normVars == <<nurl, nvar, nedits, nres>>
enrVars == <<youtube_blocked, ecalls, eres>>
triVars == <<titems, tkey, tpc, tstart, tbudget, tturn, tused, tcalls, ttotal,
             tresults, tcause, tblog, traised, trefused, tfetched>>

scrVars == <<slog>>
runVars == <<world, store, rpc, run, attempt, srcIdx, ritems, itemIdx, pending,
             seen, verdict_map, session, stats, disc, p3, faults, foreign>>

crlVars == <<cclock, clast, cheld, cthr, clog>>
scoreVars == <<sc_args, sc_ret>>
probeVars == <<dp_args, dp_ret>>
apiVars == <<cands, api_call, api_ret, api_calls>>
retryVars == <<rtasks>>
fcVars == <<fcall>>
bfVars == <<bf_args, bf_ret>>
angVars == <<ang_args, ang_ret>>
cfgVars == <<cfg_db, cfg_sess, cfg_log>>
schVars == <<sched>>

vars == <<normVars, enrVars, triVars, scrVars, runVars, crlVars, scoreVars, probeVars, apiVars, retryVars, fcVars, bfVars, angVars, cfgVars, schVars>>

\* the variables each part of the pipeline leaves alone
notNormVars == <<enrVars, triVars, scrVars, runVars, crlVars, scoreVars, probeVars, apiVars, retryVars, fcVars, bfVars, angVars, cfgVars, schVars>>
notEnrVars == <<normVars, triVars, scrVars, runVars, crlVars, scoreVars, probeVars, apiVars, retryVars, fcVars, bfVars, angVars, cfgVars, schVars>>
notTriVars == <<normVars, enrVars, scrVars, runVars, crlVars, scoreVars, probeVars, apiVars, retryVars, fcVars, bfVars, angVars, cfgVars, schVars>>
notScrVars == <<normVars, enrVars, triVars, runVars, crlVars, scoreVars, probeVars, apiVars, retryVars, fcVars, bfVars, angVars, cfgVars, schVars>>
notRunVars == <<normVars, ecalls, eres, triVars, scrVars, crlVars, scoreVars, probeVars, apiVars, retryVars, fcVars, bfVars, angVars, cfgVars, schVars>>
notCrlVars == <<normVars, enrVars, triVars, scrVars, runVars, scoreVars, probeVars, apiVars, retryVars, fcVars, bfVars, angVars, cfgVars, schVars>>
notScoreVars == <<normVars, enrVars, triVars, scrVars, runVars, crlVars, probeVars, apiVars, retryVars, fcVars, bfVars, angVars, cfgVars, schVars>>
notProbeVars == <<normVars, enrVars, triVars, scrVars, runVars, crlVars, scoreVars, apiVars, retryVars, fcVars, bfVars, angVars, cfgVars, schVars>>
notApiVars == <<normVars, enrVars, triVars, scrVars, runVars, crlVars, scoreVars, probeVars, retryVars, fcVars, bfVars, angVars, cfgVars, schVars>>
notRetryVars == <<normVars, enrVars, triVars, scrVars, runVars, crlVars, scoreVars, probeVars, apiVars, fcVars, bfVars, angVars, cfgVars, schVars>>
notFcVars == <<normVars, enrVars, triVars, scrVars, runVars, crlVars, scoreVars, probeVars, apiVars, retryVars, bfVars, angVars, cfgVars, schVars>>
notBfVars == <<normVars, enrVars, triVars, scrVars, runVars, crlVars, scoreVars, probeVars, apiVars, retryVars, fcVars, angVars, cfgVars, schVars>>
notAngVars == <<normVars, enrVars, triVars, scrVars, runVars, crlVars, scoreVars, probeVars, apiVars, retryVars, fcVars, bfVars, cfgVars, schVars>>
notCfgVars == <<normVars, enrVars, triVars, scrVars, runVars, crlVars, scoreVars, probeVars, apiVars, retryVars, fcVars, bfVars, angVars, schVars>>
notSchVars == <<normVars, enrVars, triVars, scrVars, runVars, crlVars, scoreVars, probeVars, apiVars, retryVars, fcVars, bfVars, angVars, cfgVars>>

\* "no value" for a string field, and for a record-valued variable
None == "None"
NoRes == [none |-> TRUE]

\* the parts of the pipeline that a specification does not exercise
NormIdle == nurl = NoRes /\ nvar = NoRes /\ nedits = <<>> /\ nres = NoRes
EnrichIdle == youtube_blocked = FALSE /\ ecalls = 0 /\ eres = NoRes
TriageIdle ==
    /\ titems = <<>> /\ tkey = FALSE /\ tpc = "off"
    /\ tstart = 1 /\ tbudget = 0 /\ tturn = 0 /\ tused = 0 /\ tcalls = 0
    /\ ttotal = 0 /\ tresults = <<>> /\ tcause = <<>> /\ tblog = <<>>
    /\ traised = FALSE
    /\ trefused = 0 /\ tfetched = 0
ScrapeIdle == slog = <<>>
RunIdle ==
    /\ world = NoRes /\ store = {} /\ rpc = "off" /\ run = 0 /\ attempt = 0
    /\ srcIdx = 1 /\ ritems = <<>> /\ itemIdx = 1 /\ pending = <<>>
    /\ seen = {} /\ verdict_map = <<>> /\ session = <<>> /\ stats = NoRes
    /\ disc = <<>> /\ p3 = <<>> /\ faults = NoRes /\ foreign = NoRes

CrawlIdle ==
    /\ cclock = 0 /\ clast = 0 /\ cheld = 0 /\ cthr = <<>> /\ clog = <<>>

ScoreIdle ==
    /\ sc_args = NoRes /\ sc_ret = NoRes

ProbeIdle ==
    /\ dp_args = NoRes /\ dp_ret = NoRes

ApiIdle ==
    /\ cands = <<>> /\ api_call = NoRes /\ api_ret = NoRes /\ api_calls = 0

RetryIdle ==
    /\ rtasks = <<>>

FcIdle ==
    /\ fcall = NoRes

BackfillIdle ==
    /\ bf_args = NoRes /\ bf_ret = NoRes

AnglesIdle ==
    /\ ang_args = NoRes /\ ang_ret = NoRes

ConfigIdle ==
    /\ cfg_db = NoRes /\ cfg_sess = NoRes /\ cfg_log = NoRes

SchedIdle == sched = NoRes

(***************************************************************************)
(* Sequence helpers                                                        *)
(***************************************************************************)
RECURSIVE SeqFilterKeys(_, _)
\* the pairs of q whose key is not k (order kept)
SeqFilterKeys(q, k) ==
    IF q = <<>> THEN <<>>
    ELSE IF Head(q).k = k THEN SeqFilterKeys(Tail(q), k)
         ELSE <<Head(q)>> \o SeqFilterKeys(Tail(q), k)

RECURSIVE SeqSelectKey(_, _)
\* the pairs of q whose key is k (order kept)
SeqSelectKey(q, k) ==
    IF q = <<>> THEN <<>>
    ELSE IF Head(q).k = k THEN <<Head(q)>> \o SeqSelectKey(Tail(q), k)
         ELSE SeqSelectKey(Tail(q), k)

InsertAt(s, i, e) == SubSeq(s, 1, i) \o <<e>> \o SubSeq(s, i + 1, Len(s))

(***************************************************************************)
(* dedup.py: URLs.  A URL is kept as the components urlparse splits it     *)
(* into: scheme, netloc, path (its segments and the number of trailing     *)
(* slashes), query (the k=v pairs in order) and fragment.                  *)
(***************************************************************************)

\* str.lower() on the strings the model uses
LowerTable ==
    [s \in {"HTTP", "HTTPS", "A.com", "WWW.A.com", "Pub.com",
            "UTM_Source", "Fbclid", "REF", "UTM_Id"} |->
        CASE s = "HTTP" -> "http"
          [] s = "HTTPS" -> "https"
          [] s = "A.com" -> "a.com"
          [] s = "WWW.A.com" -> "www.a.com"
          [] s = "Pub.com" -> "pub.com"
          [] s = "UTM_Source" -> "utm_source"
          [] s = "Fbclid" -> "fbclid"
          [] s = "REF" -> "ref"
          [] s = "UTM_Id" -> "utm_id"]

Lower(s) == IF s \in DOMAIN LowerTable THEN LowerTable[s] ELSE s

TRACKING_PARAMS ==
    {"utm_source", "utm_medium", "utm_campaign", "utm_term", "utm_content",
     "fbclid", "gclid", "ref", "mc_cid", "mc_eid"}

RECURSIVE parse_qs(_)
\* parse_qs(query, keep_blank_values=True): a dict key -> list of values, kept
\* here as the sequence of pairs grouped by key in order of first appearance
\* (this is the order urlencode(doseq=True) writes them back in).
parse_qs(q) ==
    IF q = <<>> THEN <<>>
    ELSE SeqSelectKey(q, Head(q).k) \o parse_qs(SeqFilterKeys(q, Head(q).k))

RECURSIVE FilterTrackingMut(_)
\* mutant: the key is compared without lower-casing it
FilterTrackingMut(q) ==
    IF q = <<>> THEN <<>>
    ELSE IF Head(q).k \in TRACKING_PARAMS THEN FilterTrackingMut(Tail(q))
         ELSE <<Head(q)>> \o FilterTrackingMut(Tail(q))

RECURSIVE FilterTracking(_)
\* {k: v for k, v in query_params.items() if k.lower() not in TRACKING_PARAMS}
FilterTracking(q) ==
    IF q = <<>> THEN <<>>
    ELSE IF Lower(Head(q).k) \in TRACKING_PARAMS THEN FilterTracking(Tail(q))
         ELSE <<Head(q)>> \o FilterTracking(Tail(q))

\* mutant: the path keeps its trailing slashes
normalize_url_keepslash(u) ==
    [scheme |-> Lower(u.scheme), netloc |-> Lower(u.netloc),
     segs |-> u.segs, slashes |-> u.slashes,
     query |-> FilterTracking(parse_qs(u.query)), frag |-> ""]

\* normalize_url: lower-case scheme and host, path.rstrip('/'), drop the
\* tracking parameters, drop the fragment
normalize_url(u) ==
    [scheme |-> Lower(u.scheme), netloc |-> Lower(u.netloc),
     segs |-> u.segs, slashes |-> 0,
     query |-> FilterTracking(parse_qs(u.query)), frag |-> ""]

\* hashlib.sha256(...).hexdigest(): a digest determined by, and (SHA-256
\* being collision resistant) determining, the normalized URL
Sha256(n) == <<"sha256", n>>

\* mutant: the digest of the raw URL
url_hash_raw(u) == Sha256(u)

url_hash(u) == Sha256(normalize_url(u))

(***************************************************************************)
(* SpecNorm: normalize_url and url_hash applied to a URL and to a variant  *)
(* of it.                                                                  *)
(***************************************************************************)
MaxEdits == 2

NormSchemes == {"http", "HTTPS"}
NormHosts == {"a.com", "A.com"}
NormPaths == {<<>>, <<"news", "x">>}
NormQueries == {<<>>, <<[k |-> "id", v |-> "1"]>>}
NormFrags == {"", "top"}

\* parameters the edits may add: members of TRACKING_PARAMS (in any letter
\* case), and other utm_ / click-id parameters
FixedTrackingKeys == {"utm_source", "UTM_Source", "fbclid", "ref"}
OtherUtmKeys == {"utm_id", "UTM_Id"}
OtherClickIdKeys == {"msclkid"}

InitNorm ==
    /\ nurl \in [scheme : NormSchemes, netloc : NormHosts, segs : NormPaths,
                 slashes : {0}, query : NormQueries, frag : NormFrags]
    /\ nvar = nurl
    /\ nedits = <<>>
    /\ nres = NoRes
    /\ EnrichIdle
    /\ TriageIdle
    /\ ScrapeIdle
    /\ RunIdle
    /\ CrawlIdle
    /\ SchedIdle
    /\ ConfigIdle
    /\ AnglesIdle
    /\ BackfillIdle
    /\ FcIdle
    /\ RetryIdle
    /\ ApiIdle
    /\ ProbeIdle
    /\ ScoreIdle

\* a k=v pair is added anywhere in the query of the variant
AddParam(kind, keys) ==
    /\ nres = NoRes
    /\ Len(nedits) < MaxEdits
    /\ \E key \in keys, i \in 0..Len(nvar.query) :
          nvar' = [nvar EXCEPT !.query = InsertAt(@, i, [k |-> key, v |-> "t"])]
    /\ nedits' = Append(nedits, kind)
    /\ UNCHANGED <<nurl, nres, notNormVars>>

AddFixedTracking == AddParam("tracking", FixedTrackingKeys)
AddOtherUtm == AddParam("utm", OtherUtmKeys)
AddOtherClickId == AddParam("clickid", OtherClickIdKeys)

\* a slash is appended to the path of the variant
AddTrailingSlash ==
    /\ nres = NoRes
    /\ Len(nedits) < MaxEdits
    /\ nvar' = [nvar EXCEPT !.slashes = @ + 1]
    /\ nedits' = Append(nedits, "slash")
    /\ UNCHANGED <<nurl, nres, notNormVars>>

\* normalize_url and url_hash are called on both URLs
Normalize ==
    /\ nres = NoRes
    /\ nres' = [n1 |-> normalize_url(nurl), n2 |-> normalize_url(nvar),
                h1 |-> url_hash(nurl), h2 |-> url_hash(nvar)]
    /\ UNCHANGED <<nurl, nvar, nedits, notNormVars>>

NextNorm ==
    \/ AddFixedTracking
    \/ AddOtherUtm
    \/ AddOtherClickId
    \/ AddTrailingSlash
    \/ Normalize

SpecNorm == InitNorm /\ [][NextNorm]_vars

Range(s) == {s[i] : i \in DOMAIN s}

\* C3 (as stated): two URLs that differ only by tracking query parameters
\* (any utm_* parameter, any click-id style parameter) or by a trailing
\* slash have the same normalized URL and the same hash.
C3_AnyTrackingParam ==
    nres # NoRes => (nres.n1 = nres.n2 /\ nres.h1 = nres.h2)

\* C3 (amended): two URLs that differ only by parameters whose lower-cased
\* name is in TRACKING_PARAMS, or by trailing slashes on the path, have the
\* same normalized URL and the same hash.
C3_FixedTrackingSet ==
    (nres # NoRes /\ Range(nedits) \subseteq {"tracking", "slash"})
        => (nres.n1 = nres.n2 /\ nres.h1 = nres.h2)

\* C3 witness: a variant with an upper-case tracking parameter and a
\* trailing slash has been normalized
C3_Witness ==
    /\ nres # NoRes
    /\ Range(nedits) = {"tracking", "slash"}
    /\ \E i \in DOMAIN nvar.query : nvar.query[i].k = "UTM_Source"
    /\ nvar # nurl
    /\ nres.h1 = nres.h2


(***************************************************************************)
(* enrichment.py.  A metadata dict is a function from its keys to values.  *)
(***************************************************************************)
Has(meta, k) == k \in DOMAIN meta
Get(meta, k, default) == IF k \in DOMAIN meta THEN meta[k] ELSE default
Put(meta, k, v) == [x \in DOMAIN meta \cup {k} |-> IF x = k THEN v ELSE meta[x]]
SetDefault(meta, k, v) == IF k \in DOMAIN meta THEN meta ELSE Put(meta, k, v)
EmptyMeta == [x \in {} |-> ""]

\* metadata['enrichment_failed'] = True; metadata['enrichment_error'] = msg
MarkFailed(meta, msg) ==
    Put(Put(meta, "enrichment_failed", "True"), "enrichment_error", msg)

\* the seven assignments every successful strategy makes
MarkEnriched(meta, format, source) ==
    Put(Put(Put(Put(Put(Put(Put(meta,
        "full_content", "content"),
        "content_format", format),
        "content_source", source),
        "content_length", "len(content)"),
        "enriched_at", "now"),
        "enrichment_failed", "False"),
        "enrichment_error", "null")

\* _promote_rss_content
PromoteRssContent(meta) == MarkEnriched(meta, "rss_html", "rss_feed")

\* str(e) of the exceptions a transcript fetch raises, and whether the
\* lower-cased text contains "blocking" / contains "ip" (the two substring
\* tests of the breaker); "transcript" contains "ip"
YtErrors ==
    {"Could not retrieve a transcript: YouTube is blocking requests from your IP",
     "Could not retrieve a transcript: Subtitles are disabled for this video",
     "Read timed out"}
HasBlocking(msg) ==
    msg = "Could not retrieve a transcript: YouTube is blocking requests from your IP"
HasIp(msg) ==
    msg \in {"Could not retrieve a transcript: YouTube is blocking requests from your IP",
             "Could not retrieve a transcript: Subtitles are disabled for this video"}

\* mutant: the breaker is neither consulted nor kept, each call fetches
EnrichYoutubeVideoRetries(meta, blocked, ext) ==
    IF ~ext.video_id
    THEN [meta |-> MarkFailed(meta, "Could not extract video ID from URL"),
          blocked |-> FALSE, called |-> FALSE, exc |-> None]
    ELSE IF ext.yt = "ok"
    THEN [meta |-> MarkEnriched(meta, "transcript", "youtube_transcript"),
          blocked |-> FALSE, called |-> TRUE, exc |-> None]
    ELSE [meta |-> MarkFailed(meta, ext.yt),
          blocked |-> (HasBlocking(ext.yt) \/ HasIp(ext.yt)),
          called |-> TRUE, exc |-> None]

\* _enrich_youtube_video: [meta, blocked, called]; ext.video_id says whether
\* the URL holds a video id, ext.yt is "ok" or the exception's text
EnrichYoutubeVideo(meta, blocked, ext) ==
    IF blocked
    THEN [meta |-> MarkFailed(meta, "YouTube transcript skipped (IP blocked)"),
          blocked |-> blocked, called |-> FALSE, exc |-> None]
    ELSE IF ~ext.video_id
    THEN [meta |-> MarkFailed(meta, "Could not extract video ID from URL"),
          blocked |-> blocked, called |-> FALSE, exc |-> None]
    ELSE IF ext.yt = "ok"
    THEN [meta |-> MarkEnriched(meta, "transcript", "youtube_transcript"),
          blocked |-> blocked, called |-> TRUE, exc |-> None]
    ELSE [meta |-> MarkFailed(meta, ext.yt),
          blocked |-> (HasBlocking(ext.yt) \/ HasIp(ext.yt)),
          called |-> TRUE, exc |-> None]

NoDate == -1

\* _enrich_web_article: ext.scrapable is _is_scrapable_url(url), ext.api_key
\* whether FIRECRAWL_API_KEY is configured, ext.scrape what _firecrawl_scrape
\* returns or raises, ext.page_date / ext.url_date the dates
\* _extract_publish_date and _extract_date_from_url find (age in days)
EnrichWebArticle(meta, blocked, ext) ==
    IF ~ext.scrapable
    THEN [meta |-> MarkFailed(meta, "URL not scrapable"),
          blocked |-> blocked, called |-> FALSE, exc |-> None]
    ELSE IF ~ext.api_key
    THEN [meta |-> MarkFailed(meta, "FIRECRAWL_API_KEY not configured"),
          blocked |-> blocked, called |-> FALSE, exc |-> None]
    ELSE IF ext.scrape = "raises"
    THEN [meta |-> meta, blocked |-> blocked, called |-> TRUE,
          exc |-> "invalid literal for int()"]
    ELSE IF ext.scrape \in {"none", "empty"}
    THEN [meta |-> MarkFailed(meta, "Firecrawl scrape returned no data"),
          blocked |-> blocked, called |-> TRUE, exc |-> None]
    ELSE LET m1 == IF ext.scrape \in {"markdown", "markdown_null_metadata"}
                   THEN MarkEnriched(meta, "markdown", "firecrawl")
                   ELSE MarkFailed(meta, "Firecrawl scrape returned no content")
             d == IF ext.page_date # NoDate THEN ext.page_date ELSE ext.url_date
         IN  IF ext.scrape = "markdown_null_metadata"
             THEN [meta |-> m1, blocked |-> blocked, called |-> TRUE,
                   exc |-> "'NoneType' object has no attribute 'get'"]
             ELSE [meta |-> IF d # NoDate
                            THEN Put(m1, "extracted_published_date", d)
                            ELSE m1,
                   blocked |-> blocked, called |-> TRUE, exc |-> None]

\* the strategy enrich_item selects, inside its try
EnrichStrategy(meta, source_type, blocked, ext) ==
    IF source_type = "Data"
    THEN [meta |-> SetDefault(SetDefault(meta, "content_format", "claude_summary"),
                              "content_source", "data_scraper"),
          blocked |-> blocked, called |-> FALSE, exc |-> None]
    ELSE IF Has(meta, "rss_full_content")
    THEN [meta |-> PromoteRssContent(meta), blocked |-> blocked,
          called |-> FALSE, exc |-> None]
    ELSE IF source_type = "YouTube Keywords"
    THEN EnrichYoutubeVideo(meta, blocked, ext)
    ELSE EnrichWebArticle(meta, blocked, ext)

\* mutant: no try/except around the strategies
enrich_item_nocatch(meta, source_type, blocked, ext) ==
    LET r == EnrichStrategy(meta, source_type, blocked, ext)
    IN  [meta |-> r.meta, blocked |-> r.blocked, called |-> r.called,
         raised |-> r.exc # None]

\* enrich_item: [meta, blocked, called, raised]; an exception of a strategy is
\* caught and recorded in the metadata the strategy had mutated so far
enrich_item(meta, source_type, blocked, ext) ==
    LET r == EnrichStrategy(meta, source_type, blocked, ext)
    IN  [meta |-> IF r.exc # None THEN MarkFailed(r.meta, r.exc) ELSE r.meta,
         blocked |-> r.blocked, called |-> r.called, raised |-> FALSE]

(***************************************************************************)
(* SpecEnrich: a process makes enrich_item calls one after another.        *)
(***************************************************************************)
MaxEnrichCalls == 2

EnrichSourceTypes ==
    {"Data", "RSS Feed", "News Site", "Keyword Search", "YouTube Keywords"}
EnrichMetas == {EmptyMeta, [x \in {"rss_full_content"} |-> "html"]}
EnrichExts ==
    [scrapable : BOOLEAN, api_key : BOOLEAN, video_id : BOOLEAN,
     scrape : {"none", "empty", "raises", "markdown", "no_markdown",
               "markdown_null_metadata"},
     yt : {"ok"} \cup YtErrors,
     page_date : {NoDate, 3}, url_date : {NoDate}]

InitEnrich ==
    /\ youtube_blocked = FALSE
    /\ ecalls = 0
    /\ eres = NoRes
    /\ NormIdle
    /\ TriageIdle
    /\ ScrapeIdle
    /\ RunIdle
    /\ CrawlIdle
    /\ SchedIdle
    /\ ConfigIdle
    /\ AnglesIdle
    /\ BackfillIdle
    /\ FcIdle
    /\ RetryIdle
    /\ ApiIdle
    /\ ProbeIdle
    /\ ScoreIdle

\* one call enrich_item(url, metadata, source_type, source_url)
EnrichItem ==
    /\ ecalls < MaxEnrichCalls
    /\ \E st \in EnrichSourceTypes, m \in EnrichMetas, ext \in EnrichExts :
         LET r == enrich_item(m, st, youtube_blocked, ext)
         IN  /\ eres' = [source_type |-> st, meta_in |-> m, meta |-> r.meta,
                         raised |-> r.raised, called |-> r.called]
             /\ youtube_blocked' = r.blocked
    /\ ecalls' = ecalls + 1
    /\ UNCHANGED notEnrVars

NextEnrich == EnrichItem

SpecEnrich == InitEnrich /\ [][NextEnrich]_vars

SuccessKeys ==
    {"full_content", "content_format", "content_source", "content_length",
     "enriched_at"}

\* C8: enrich_item returns the metadata and never raises; when the metadata
\* says enrichment_failed = True it holds a non-empty error string, when it
\* says enrichment_failed = False it holds full_content, content_format,
\* content_source, content_length and enriched_at; every strategy but the
\* pre-enriched Data one sets enrichment_failed to one of the two.
C8_EnrichAlwaysReturns ==
    eres # NoRes =>
        /\ ~eres.raised
        /\ DOMAIN eres.meta_in \subseteq DOMAIN eres.meta
        /\ eres.source_type # "Data" => Has(eres.meta, "enrichment_failed")
        /\ Get(eres.meta, "enrichment_failed", "absent") = "True"
              => Get(eres.meta, "enrichment_error", "") \notin {"", "null"}
        /\ Get(eres.meta, "enrichment_failed", "absent") = "False"
              => SuccessKeys \subseteq DOMAIN eres.meta

\* the call that eres describes went to _enrich_youtube_video
VideoCall(res) ==
    /\ res # NoRes
    /\ res.source_type = "YouTube Keywords"
    /\ ~Has(res.meta_in, "rss_full_content")

\* C12: the breaker, once set, stays set; a video enrichment made while it
\* is set returns the failure marker without a transcript fetch; a fetch
\* that reported that YouTube is blocking the IP sets it.
C12_BreakerIsOneWay ==
    [][ /\ youtube_blocked => youtube_blocked'
        /\ (youtube_blocked /\ ecalls' = ecalls + 1 /\ VideoCall(eres')) =>
              /\ ~eres'.called
              /\ Get(eres'.meta, "enrichment_failed", "absent") = "True"
              /\ Get(eres'.meta, "enrichment_error", "") =
                    "YouTube transcript skipped (IP blocked)"
        /\ ( /\ ecalls' = ecalls + 1 /\ VideoCall(eres') /\ eres'.called
             /\ HasBlocking(Get(eres'.meta, "enrichment_error", "")) )
              => youtube_blocked'
      ]_vars

\* a fetch reported the block, and the video enrichment after it returned
\* the skip marker without fetching
C12_Witness ==
    /\ youtube_blocked
    /\ ecalls = 2
    /\ VideoCall(eres)
    /\ ~eres.called
    /\ Get(eres.meta, "enrichment_error", "") = "YouTube transcript skipped (IP blocked)"

\* C8 witness: the second call of a process crawled a news-site article, the
\* answer made the date extraction raise, and the call ended with the failure
\* marker carrying the exception's text
C8_Witness ==
    /\ eres # NoRes
    /\ ecalls = 2
    /\ eres.source_type = "News Site"
    /\ eres.called
    /\ Get(eres.meta, "enrichment_error", "") = "'NoneType' object has no attribute 'get'"


(***************************************************************************)
(* triage.py.  An LLM answer is kept as what _parse_response makes of its  *)
(* text: no text at all, text that is not JSON, JSON that is not an array, *)
(* or an array of entries.                                                 *)
(***************************************************************************)
Min(a, b) == IF a < b THEN a ELSE b
Max(a, b) == IF a > b THEN a ELSE b

VALID_VERDICTS == {"relevant_news", "maybe", "not_news"}

\* an array element that is no object or has no 'index' key
NoIndex == -1

\* dateutil's parse on the published_date strings the answers carry: the age
\* in days of the date, NoDate where the code ends with published_date None
ParseTriageDate(raw) ==
    CASE raw = "10 days ago" -> 10
      [] raw = "null" -> NoDate
      [] raw = "not a date" -> NoDate

\* one record of the result list; the fallback records of the code have no
\* published_date key, which their readers take as None
VerdictRecord(url, verdict, reasoning, date) ==
    [url |-> url, verdict |-> verdict, reasoning |-> reasoning,
     published_date |-> date]

\* the all-'maybe' list built at the top of _triage_batch / _parse_response
Fallback(items, reasoning) ==
    [k \in 1..Len(items) |-> VerdictRecord(items[k], "maybe", reasoning, NoDate)]

\* verdict_map.get(i, {}): the last entry of the array with that index
MissingEntry ==
    [index |-> NoIndex, verdict |-> "absent", reasoning |-> "absent",
     published_date |-> "null"]
Lookup(entries, i) ==
    LET S == {j \in DOMAIN entries : entries[j].index = i}
    IN  IF S = {} THEN MissingEntry
        ELSE entries[CHOOSE j \in S : \A j2 \in S : j2 <= j]

\* _parse_response raises on an array entry whose index is unhashable
ParseRaises(resp) == resp.kind = "array_unhashable_index"

\* mutant: one record per entry of the answer
ParseResponsePerEntry(resp, items) ==
    IF resp.kind \in {"no_text", "not_json", "not_array"}
    THEN Fallback(items, "parse fallback")
    ELSE [k \in 1..Len(resp.entries) |->
            LET v == resp.entries[k]
            IN  VerdictRecord(items[Min(k, Len(items))],
                              IF v.verdict \in VALID_VERDICTS
                              THEN v.verdict ELSE "maybe",
                              v.reasoning, ParseTriageDate(v.published_date))]

\* _parse_response
ParseResponse(resp, items) ==
    IF resp.kind \in {"no_text", "not_json", "not_array"}
    THEN Fallback(items, "parse fallback")
    ELSE [k \in 1..Len(items) |->
            LET v == Lookup(resp.entries, k - 1)
            IN  VerdictRecord(items[k],
                              IF v.verdict \in VALID_VERDICTS
                              THEN v.verdict ELSE "maybe",
                              IF v.reasoning = "absent"
                              THEN "no reasoning provided" ELSE v.reasoning,
                              ParseTriageDate(v.published_date))]

\* mutant: the handler lets the exception go
BatchOnErrorReraise(items) ==
    [results |-> <<>>, raised |-> TRUE]

\* the except branches of _triage_batch: return fallback, 0
BatchOnError(items) ==
    [results |-> Fallback(items, "triage fallback"), raised |-> FALSE]

\* what _triage_batch returns once a request has given a final answer
BatchOnAnswer(resp, items) ==
    IF ParseRaises(resp) THEN BatchOnError(items)
    ELSE [results |-> ParseResponse(resp, items), raised |-> FALSE]

\* what the exchange gave for item i (from 0) of a batch
AnswerCause(resp, i) ==
    CASE resp.kind = "no_text" -> "empty"
      [] resp.kind = "not_json" -> "malformed"
      [] resp.kind = "array_unhashable_index" -> "malformed"
      [] resp.kind = "not_array" -> "non_array"
      [] resp.kind = "array" ->
           IF \A j \in DOMAIN resp.entries : resp.entries[j].index # i
           THEN "missing_index"
           ELSE IF Lookup(resp.entries, i).verdict \notin VALID_VERDICTS
           THEN "unknown_verdict"
           ELSE "answered"
AnswerCauses(resp, items) == [k \in 1..Len(items) |-> AnswerCause(resp, k - 1)]
AllCause(items, c) == [k \in 1..Len(items) |-> c]

(***************************************************************************)
(* SpecTriage: one triage_items call, a step per LLM request.              *)
(***************************************************************************)
TRIAGE_MAX_BATCH_SIZE == 2
TRIAGE_FETCH_BUDGET == 1
MaxTriageItems == 3
MaxAnswerLen == 2
MaxToolBlocks == 2

TriageUrls == {"u1", "u2"}
TriageInputs == UNION {[1..n -> TriageUrls] : n \in 0..MaxTriageItems}

TriageEntries ==
    [index : {0, 1, 7}, verdict : {"relevant_news", "not_news", "spam"},
     reasoning : {"because"}, published_date : {"null"}]
    \cup {[index |-> 0, verdict |-> "absent", reasoning |-> "absent",
           published_date |-> "10 days ago"],
          [index |-> 1, verdict |-> "relevant_news", reasoning |-> "because",
           published_date |-> "not a date"],
          [index |-> NoIndex, verdict |-> "not_news", reasoning |-> "because",
           published_date |-> "null"]}
TriageAnswers ==
    {[kind |-> k, entries |-> <<>>] :
        k \in {"no_text", "not_json", "not_array", "array_unhashable_index"}}
    \cup {[kind |-> "array", entries |-> e] :
            e \in UNION {[1..n -> TriageEntries] : n \in 0..MaxAnswerLen}}

InitTriage ==
    /\ titems \in TriageInputs
    /\ tkey \in BOOLEAN
    /\ tpc = "start"
    /\ tstart = 1 /\ tbudget = 0 /\ tturn = 0 /\ tused = 0 /\ tcalls = 0
    /\ ttotal = 0 /\ tresults = <<>> /\ tcause = <<>> /\ tblog = <<>>
    /\ traised = FALSE
    /\ trefused = 0 /\ tfetched = 0
    /\ NormIdle
    /\ EnrichIdle
    /\ ScrapeIdle
    /\ RunIdle
    /\ CrawlIdle
    /\ SchedIdle
    /\ ConfigIdle
    /\ AnglesIdle
    /\ BackfillIdle
    /\ FcIdle
    /\ RetryIdle
    /\ ApiIdle
    /\ ProbeIdle
    /\ ScoreIdle

\* mutant: every batch gets the whole budget
full_fetch_budget(total_fetches) == TRIAGE_FETCH_BUDGET

\* remaining_fetch_budget = max(0, fetch_budget - total_fetches)
remaining_fetch_budget(total_fetches) == Max(0, TRIAGE_FETCH_BUDGET - total_fetches)

\* items[start:start + batch_size]
CurrentBatch ==
    SubSeq(titems, tstart, Min(tstart + TRIAGE_MAX_BATCH_SIZE - 1, Len(titems)))

\* triage_items up to its first LLM request
TriageStart ==
    /\ tpc = "start"
    /\ IF titems = <<>>
       THEN /\ tpc' = "done"
            /\ UNCHANGED <<tresults, tcause, tbudget>>
       ELSE IF ~tkey
       THEN /\ tresults' = Fallback(titems, "triage skipped (no API key)")
            /\ tcause' = AllCause(titems, "no_api_key")
            /\ tpc' = "done"
            /\ UNCHANGED tbudget
       ELSE /\ tpc' = "loop"
            /\ tbudget' = remaining_fetch_budget(ttotal)
            /\ UNCHANGED <<tresults, tcause>>
    /\ UNCHANGED <<titems, tkey, tstart, tturn, tused, tcalls, ttotal, tblog,
                   traised, trefused, tfetched, notTriVars>>

\* _triage_batch returns (r.results, fetches): triage_items extends results,
\* adds the fetches and goes to the next batch, or returns
FinishBatch(r, fetches, how, causes) ==
    /\ traised' = r.raised
    /\ trefused' = 0
    /\ tresults' = tresults \o r.results
    /\ tcause' = tcause \o causes
    /\ ttotal' = ttotal + fetches
    /\ tblog' = Append(tblog, how)
    /\ tturn' = 0 /\ tused' = 0 /\ tcalls' = 0
    /\ IF r.raised
       THEN tpc' = "raised" /\ UNCHANGED <<tstart, tbudget>>
       ELSE IF tstart + TRIAGE_MAX_BATCH_SIZE > Len(titems)
       THEN tpc' = "done" /\ UNCHANGED <<tstart, tbudget>>
       ELSE /\ tpc' = "loop"
            /\ tstart' = tstart + TRIAGE_MAX_BATCH_SIZE
            /\ tbudget' = remaining_fetch_budget(ttotal')
    /\ UNCHANGED <<titems, tkey, tfetched, notTriVars>>

\* mutant: the loop asks again however often it was answered with tool_use
ToolUseTurnAgain ==
    /\ tpc = "loop" /\ tturn < tbudget + 3
    /\ \E n \in 0..MaxToolBlocks :
         /\ tused' = Min(tbudget, tused + n)
         /\ trefused' = tused + n - tused'
         /\ tfetched' = tfetched + (tused' - tused)
    /\ tturn' = tturn + 1
    /\ tcalls' = tcalls + 1
    /\ UNCHANGED <<titems, tkey, tpc, tstart, tbudget, ttotal, tresults,
                   tcause, tblog, traised, notTriVars>>

\* a request of the loop answered with stop_reason tool_use holding n
\* fetch_page blocks: each is fetched while fetches_used < fetch_budget
ToolUseTurn ==
    /\ tpc = "loop" /\ tturn < tbudget + 2
    /\ \E n \in 0..MaxToolBlocks :
         /\ tused' = Min(tbudget, tused + n)
         /\ trefused' = tused + n - tused'
         /\ tfetched' = tfetched + (tused' - tused)
    /\ tturn' = tturn + 1
    /\ tcalls' = tcalls + 1
    /\ UNCHANGED <<titems, tkey, tpc, tstart, tbudget, ttotal, tresults,
                   tcause, tblog, traised, notTriVars>>

\* a request of the loop answered with a final response
FinalAnswer ==
    /\ tpc = "loop" /\ tturn < tbudget + 2
    /\ \E resp \in TriageAnswers :
         FinishBatch(BatchOnAnswer(resp, CurrentBatch), 
                     IF ParseRaises(resp) THEN 0 ELSE tused, "answer",
                     AnswerCauses(resp, CurrentBatch))

\* the loop ran fetch_budget + 2 times: one more request, without tools
ForcedFinalCall ==
    /\ tpc = "loop" /\ tturn = tbudget + 2
    /\ \E resp \in TriageAnswers :
         FinishBatch(BatchOnAnswer(resp, CurrentBatch),
                     IF ParseRaises(resp) THEN 0 ELSE tused, "forced",
                     AnswerCauses(resp, CurrentBatch))

\* a request of the exchange raises RateLimitError: sleep, then retry
RateLimited ==
    /\ tpc = "loop"
    /\ tpc' = "retry"
    /\ tcalls' = tcalls + 1
    /\ UNCHANGED <<titems, tkey, tstart, tbudget, tturn, tused, ttotal,
                   tresults, tcause, tblog, traised, trefused, tfetched, notTriVars>>

\* a request of the exchange, or the handling of its answer, raises
\* anything else
CallFails ==
    /\ tpc = "loop"
    /\ FinishBatch(BatchOnError(CurrentBatch), 0, "call_failure",
                   AllCause(CurrentBatch, "call_failure"))

\* the single retry after a rate limit is answered
RetryAnswer ==
    /\ tpc = "retry"
    /\ \E resp \in TriageAnswers :
         FinishBatch(BatchOnAnswer(resp, CurrentBatch), 0, "retry_answer",
                     AnswerCauses(resp, CurrentBatch))

\* mutant: a retry that raises is retried
RetryFailsRetriesAgain ==
    /\ tpc = "retry" /\ tcalls <= tbudget + 3
    /\ tcalls' = tcalls + 1
    /\ UNCHANGED <<titems, tkey, tpc, tstart, tbudget, tturn, tused, ttotal,
                   tresults, tcause, tblog, traised, trefused, tfetched, notTriVars>>

\* the single retry after a rate limit raises
RetryFails ==
    /\ tpc = "retry"
    /\ FinishBatch(BatchOnError(CurrentBatch), 0, "retry_failure",
                   AllCause(CurrentBatch, "call_failure"))

NextTriage ==
    \/ TriageStart
    \/ ToolUseTurn
    \/ FinalAnswer
    \/ ForcedFinalCall
    \/ RateLimited
    \/ CallFails
    \/ RetryAnswer
    \/ RetryFails

SpecTriage == InitTriage /\ [][NextTriage]_vars

\* C6: no exception leaves triage_items, and every item for which the LLM
\* exchange failed, gave no text, gave malformed JSON, gave a non-array, gave
\* no entry with the item's index or gave an unknown verdict string (or for
\* which no API key is configured) has the verdict 'maybe'.
C6_TriageNeverRaises ==
    /\ ~traised
    /\ tpc # "raised"
    /\ Len(tcause) = Len(tresults)
    /\ \A k \in DOMAIN tcause :
         tcause[k] # "answered" => tresults[k].verdict = "maybe"

\* C6 witness: a call over two batches has returned; the first batch failed
\* in the LLM request, the answer to the second one had an unknown verdict
C6_Witness ==
    /\ tpc = "done"
    /\ Len(titems) = 3
    /\ tcause[1] = "call_failure"
    /\ tcause[3] = "unknown_verdict"
    /\ tresults[3].verdict = "maybe"

\* C7: a finished triage_items call has returned one record per input item,
\* in input order: record k has the URL of item k and a verdict among
\* relevant_news, maybe and not_news; while the call runs the records
\* gathered are those of the items before the current batch.
C7_OneVerdictPerItem ==
    /\ tpc \in {"loop", "retry"} => Len(tresults) = tstart - 1
    /\ tpc = "done" => Len(tresults) = Len(titems)
    /\ \A k \in DOMAIN tresults :
         /\ k \in DOMAIN titems
         /\ tresults[k].url = titems[k]
         /\ tresults[k].verdict \in VALID_VERDICTS

\* C7 witness: three items in two batches, the first batch answered after a
\* rate-limit retry with a not_news verdict for the second item and nothing
\* for the first, the second batch failed
C7_Witness ==
    /\ tpc = "done"
    /\ Len(titems) = 3
    /\ Len(tblog) = 2
    /\ tblog[1] = "retry_answer"
    /\ tblog[2] = "call_failure"
    /\ tcause[1] = "missing_index"
    /\ tresults[2].verdict = "not_news"
    /\ titems[1] = titems[3]


(***************************************************************************)
(* scrapers.py.  A scrape(source) call either returns its list of items    *)
(* (kept as their URLs) or lets an exception out.  A response of an        *)
(* external service is kept as the shape its parsing code meets.           *)
(***************************************************************************)
Returns(items) == [items |-> items, raised |-> FALSE]
Raises == [items |-> <<>>, raised |-> TRUE]

RECURSIVE Links(_)
\* the URLs of the entries that have one
Links(entries) ==
    IF entries = <<>> THEN <<>>
    ELSE IF Head(entries).link = "" THEN Links(Tail(entries))
         ELSE <<Head(entries).link>> \o Links(Tail(entries))

\* some entry holds null (or a non-object) where the loop calls .get on it
HasNullObject(entries) ==
    \E i \in DOMAIN entries : entries[i].shape = "null_object"

\* RSSFeedScraper.scrape: feedparser's entries, or its exception
RSSFeedScraper(source, ext) ==
    IF ~source.has_url THEN Returns(<<>>)
    ELSE IF ext.feed = "fails" THEN Returns(<<>>)
    ELSE Returns(Links(ext.entries))

\* NewsSiteScraper._map_site
MapSite(ext) ==
    IF ext.map = "fails" THEN Returns(<<>>)
    ELSE IF ext.map \in {"not_object", "links_null"} THEN Raises
    ELSE Returns(Links(ext.entries))

\* NewsSiteScraper._scrape_links_fallback
ScrapeLinksFallback(ext) ==
    IF ext.links = "fails" THEN Returns(<<>>)
    ELSE IF ext.links \in {"not_object", "data_null"} THEN Raises
    ELSE Returns(<<"fallback-link">>)

\* fewer items than this from /map: the links of the page are added
MAP_MIN_ITEMS == 5

\* NewsSiteScraper.scrape: a feed found by probing wins, else Firecrawl
NewsSiteScraper(source, env, ext) ==
    IF ~source.has_url THEN Returns(<<>>)
    ELSE IF ext.feed = "ok" /\ Links(ext.entries) # <<>>
    THEN Returns(Links(ext.entries))
    ELSE IF ~env.firecrawl_key THEN Returns(<<>>)
    ELSE LET m == MapSite(ext)
         IN  IF m.raised THEN Raises
             ELSE IF Len(m.items) < MAP_MIN_ITEMS
             THEN LET f == ScrapeLinksFallback(ext)
                  IN  IF f.raised THEN Raises
                      ELSE Returns(m.items \o f.items)
             ELSE m

\* KeywordSearchScraper.scrape and YouTubeSearchScraper.scrape: the request
\* is inside the try, the loop over the results is not
SearchScraper(source, env, ext) ==
    IF ~source.has_keywords THEN Returns(<<>>)
    ELSE IF ~env.serpapi_key THEN Returns(<<>>)
    ELSE IF ext.search = "fails" THEN Returns(<<>>)
    ELSE IF ext.search = "results_null" THEN Raises
    ELSE IF HasNullObject(ext.entries) THEN Raises
    ELSE Returns(Links(ext.entries))

\* DataScraper._validate_config on a config that is a JSON object
ValidateConfig(config) ==
    /\ config.fields = "all"
    /\ config.mode = "url_pattern" => config.url_pattern # "absent"

\* DataScraper._discover_via_pattern: pattern.replace and range(lookback)
\* run before any try
DiscoverViaPattern(config, ext) ==
    IF config.url_pattern = "null" THEN Raises
    ELSE IF ~config.lookback_is_int THEN Raises
    ELSE Returns(SubSeq(ext.reports, 1, Min(Len(ext.reports),
                                            config.lookback_months)))

\* DataScraper.scrape: each report found yields its story angles, or
\* nothing when its processing fails
DataScraper(source, env, ext) ==
    IF source.config = NoRes THEN Returns(<<>>)
    ELSE IF source.config.shape = "array" THEN Raises
    ELSE IF ~ValidateConfig(source.config) THEN Returns(<<>>)
    ELSE IF ~env.anthropic_key THEN Returns(<<>>)
    ELSE IF source.config.mode # "url_pattern" THEN Returns(<<>>)
    ELSE LET d == DiscoverViaPattern(source.config, ext)
         IN  IF d.raised THEN Raises
             ELSE Returns(SelectSeq(d.items, LAMBDA r : r # "report-fails"))

(***************************************************************************)
(* SpecScrape: the scrapers are called one after another.                  *)
(***************************************************************************)
MaxScrapeCalls == 2
MaxEntries == 2

ScrapeEntries ==
    {[link |-> "a", shape |-> "ok"], [link |-> "", shape |-> "ok"],
     [link |-> "b", shape |-> "null_object"]}
ScrapeEntryLists == UNION {[1..n -> ScrapeEntries] : n \in 0..MaxEntries}
ScrapeEnvs == [firecrawl_key : BOOLEAN, serpapi_key : BOOLEAN,
               anthropic_key : BOOLEAN]
DataConfigs ==
    {NoRes, [shape |-> "array"]}
    \cup [shape : {"object"}, fields : {"all", "missing"},
          mode : {"url_pattern", "unknown"},
          url_pattern : {"absent", "null", "https://x/{MMYY}.pdf"},
          lookback_months : {1, 2}, lookback_is_int : BOOLEAN]

InitScrape ==
    /\ slog = <<>>
    /\ NormIdle
    /\ EnrichIdle
    /\ TriageIdle
    /\ RunIdle
    /\ CrawlIdle
    /\ SchedIdle
    /\ ConfigIdle
    /\ AnglesIdle
    /\ BackfillIdle
    /\ FcIdle
    /\ RetryIdle
    /\ ApiIdle
    /\ ProbeIdle
    /\ ScoreIdle

Scraped(type, r) ==
    /\ slog' = Append(slog, [source_type |-> type, items |-> r.items,
                             raised |-> r.raised])
    /\ UNCHANGED notScrVars

ScrapeRSSFeed ==
    /\ Len(slog) < MaxScrapeCalls
    /\ \E has_url \in BOOLEAN, feed \in {"ok", "fails"},
          entries \in {e \in ScrapeEntryLists : ~HasNullObject(e)} :
           Scraped("RSS Feed", RSSFeedScraper([has_url |-> has_url],
                                   [feed |-> feed, entries |-> entries]))

ScrapeNewsSite ==
    /\ Len(slog) < MaxScrapeCalls
    /\ \E has_url \in BOOLEAN, env \in ScrapeEnvs, feed \in {"ok", "none"},
          map \in {"fails", "ok", "not_object", "links_null"},
          links \in {"fails", "ok", "not_object", "data_null"},
          entries \in {e \in ScrapeEntryLists : ~HasNullObject(e)} :
           Scraped("News Site", NewsSiteScraper([has_url |-> has_url], env,
                                   [feed |-> feed, map |-> map, links |-> links,
                                    entries |-> entries]))

ScrapeKeywordSearch ==
    /\ Len(slog) < MaxScrapeCalls
    /\ \E has_keywords \in BOOLEAN, env \in ScrapeEnvs,
          search \in {"fails", "ok", "results_null"},
          entries \in ScrapeEntryLists :
           Scraped("Keyword Search", SearchScraper([has_keywords |-> has_keywords],
                                   env, [search |-> search, entries |-> entries]))

ScrapeYouTube ==
    /\ Len(slog) < MaxScrapeCalls
    /\ \E has_keywords \in BOOLEAN, env \in ScrapeEnvs,
          search \in {"fails", "ok", "results_null"},
          entries \in ScrapeEntryLists :
           Scraped("YouTube Keywords", SearchScraper([has_keywords |-> has_keywords],
                                   env, [search |-> search, entries |-> entries]))

ScrapeData ==
    /\ Len(slog) < MaxScrapeCalls
    /\ \E config \in DataConfigs, env \in ScrapeEnvs,
          reports \in {<<>>, <<"report">>, <<"report-fails", "report">>} :
           Scraped("Data", DataScraper([config |-> config], env,
                                       [reports |-> reports]))

NextScrape ==
    \/ ScrapeRSSFeed
    \/ ScrapeNewsSite
    \/ ScrapeKeywordSearch
    \/ ScrapeYouTube
    \/ ScrapeData

SpecScrape == InitScrape /\ [][NextScrape]_vars

\* C9 (as stated): no scrape(source) call lets an exception out: whatever
\* the external call, the response or the source config, the scraper returns
\* a list.
C9_ScraperNeverRaises == \A i \in DOMAIN slog : ~slog[i].raised


(***************************************************************************)
(* scoring.py.  Scores are integers, in hundredths of a point; a source    *)
(* weight is in hundredths; a date is its age in days.                     *)
(***************************************************************************)
\* round(a / b, 0) for a >= 0, b > 0 (ties to even)
RoundDiv(a, b) ==
    LET q == a \div b
        r == a % b
    IN  IF 2 * r < b THEN q
        ELSE IF 2 * r > b THEN q + 1
        ELSE IF q % 2 = 0 THEN q ELSE q + 1

get_source_weight(source_type) ==
    CASE source_type = "RSS Feed" -> 100
      [] source_type \in {"News Site", "News"} -> 90
      [] source_type = "Keyword Search" -> 80
      [] source_type = "YouTube Keywords" -> 75
      [] source_type = "Competitor" -> 70
      [] source_type = "Data" -> 85
      [] source_type = "House Content" -> 30
      [] OTHER -> 50

\* compute_keyword_score: matches of the terms unique terms found in the
\* text; the float it returns, in hundredths, as the fraction num / den
compute_keyword_score(matches, terms) ==
    IF terms = 0 THEN [num |-> 5000, den |-> 1]
    ELSE [num |-> Min(matches, terms) * 10000, den |-> terms]

compute_recency_score(days) ==
    IF days = NoDate THEN 4000
    ELSE IF days < 1 THEN 10000
    ELSE IF days < 2 THEN 8500
    ELSE IF days < 4 THEN 7000
    ELSE IF days < 8 THEN 5000
    ELSE IF days < 15 THEN 3000
    ELSE IF days < 29 THEN 1500
    ELSE 500

\* lines 90-96 and 103: the weighted sum over the unrounded scores, rounded
\* to 2 decimals
CompositeRelevance(kw, rec, sw, dated) ==
    IF dated
    THEN RoundDiv(5 * kw.num + (3 * rec + 200 * sw) * kw.den, 10 * kw.den)
    ELSE RoundDiv(714 * kw.num + 28600 * sw * kw.den, 1000 * kw.den)

score_candidate(matches, terms, published_date, source_type) ==
    LET kw == compute_keyword_score(matches, terms)
        rec == compute_recency_score(published_date)
        sw == get_source_weight(source_type)
    IN  [keyword_score |-> RoundDiv(kw.num, kw.den), recency_score |-> rec,
         source_weight |-> sw,
         relevance_score |-> CompositeRelevance(kw, rec, sw, published_date # NoDate)]

\* TRIAGE_MULTIPLIERS, in hundredths
TRIAGE_MULTIPLIERS(verdict) ==
    CASE verdict = "relevant_news" -> 115
      [] verdict = "maybe" -> 100
      [] verdict = "not_news" -> 0
      [] OTHER -> 100
\* mutant: the multiplier applied to an already multiplied score
ApplyMultiplierTwice(relevance, verdict) ==
    RoundDiv(RoundDiv(relevance * TRIAGE_MULTIPLIERS(verdict), 100)
             * TRIAGE_MULTIPLIERS(verdict), 100)

\* round(relevance * multiplier, 2)
ApplyMultiplier(relevance, verdict) ==
    RoundDiv(relevance * TRIAGE_MULTIPLIERS(verdict), 100)

(***************************************************************************)
(* tasks.py, research_publication_sources: the data of a run.              *)
(***************************************************************************)
Url(scheme, netloc, segs, slashes, query) ==
    [scheme |-> scheme, netloc |-> netloc, segs |-> segs, slashes |-> slashes,
     query |-> query, frag |-> ""]
\* an item.url that url_hash cannot take (not a string)
BadUrl == [bad |-> TRUE]

UX == Url("https", "a.com", <<"news", "x">>, 0, <<>>)
UXt == Url("HTTPS", "A.com", <<"news", "x">>, 1, <<[k |-> "utm_source", v |-> "t"]>>)
UY == Url("https", "pub.com", <<"y">>, 0, <<>>)
UC == Url("https", "www.b.com", <<"c">>, 0, <<>>)
UZ == Url("https", "b.com", <<"z">>, 0, <<>>)
UO == Url("https", "b.com", <<"2024", "old">>, 0, <<>>)
UD == Url("https", "gov.org", <<"r.pdf">>, 0, <<[k |-> "angle", v |-> "1"]>>)
UW == Url("https", "www.pub.com", <<"w">>, 0, <<>>)
UV == Url("https", "www.youtube.com", <<"watch">>, 0, <<[k |-> "v", v |-> "abc"]>>)

\* _extract_date_from_url on the URLs above: /2024/old is taken as 1 Jan 2024
URL_2024_AGE == 1038
extract_date_from_url(u) ==
    IF u.segs # <<>> /\ u.segs[1] = "2024" THEN URL_2024_AGE ELSE NoDate

Item(url, published_date, metadata, matches) ==
    [url |-> url, published_date |-> published_date, metadata |-> metadata,
     matches |-> matches]
\* what CompetitorScraper.scrape leaves in the metadata of its items
CompetitorMeta == [x \in {"is_competitor"} |-> "True"]
RssMeta == [x \in {"feed_title", "rss_full_content"} |-> "text"]
FeedMeta == [x \in {"feed_title"} |-> "text"]
SearchMeta == [x \in {"source_name"} |-> "text"]
DataMeta == [x \in {"source_type", "pdf_url"} |-> "text"]
VideoMeta == [x \in {"content_type", "video_id"} |-> "text"]

Source(id, type, url, result) ==
    [id |-> id, source_type |-> type, url |-> url, result |-> result]

\* two feeds and a search that find the same stories
WorldDup ==
    [publication_domain |-> "Pub.com", terms |-> 2, content |-> {},
     sources |-> <<
        Source(1, "RSS Feed", Url("https", "a.com", <<"feed">>, 0, <<>>),
               Returns(<<Item(UX, 3, RssMeta, 2), Item(UO, NoDate, FeedMeta, 1)>>)),
        Source(2, "Keyword Search", NoRes,
               Returns(<<Item(UXt, NoDate, SearchMeta, 2),
                         Item(UY, NoDate, SearchMeta, 1)>>)),
        Source(3, "News Site", Url("https", "pub.com", <<>>, 0, <<>>),
               Returns(<<Item(UY, NoDate, EmptyMeta, 1),
                         Item(UX, NoDate, EmptyMeta, 0)>>)) >>]

\* a search that raises, a site map with an unusable link, a data report,
\* a competitor source (no scraper is registered for it)
WorldErr ==
    [publication_domain |-> "", terms |-> 2, content |-> {},
     sources |-> <<
        Source(1, "Keyword Search", NoRes, Raises),
        Source(2, "Competitor", Url("https", "www.b.com", <<>>, 0, <<>>),
               Returns(<<Item(UC, 1, CompetitorMeta, 1)>>)),
        Source(3, "News Site", Url("https", "a.com", <<>>, 0, <<>>),
               Returns(<<Item(BadUrl, NoDate, EmptyMeta, 0),
                         Item(UXt, NoDate, EmptyMeta, 2),
                         Item(UZ, 10, EmptyMeta, 0)>>)),
        Source(4, "Data", NoRes,
               Returns(<<Item(UD, 1, DataMeta, 1)>>)) >>]

\* a published story, a video, a search excluded by the competitor's domain
WorldFree ==
    [publication_domain |-> "Pub.com", terms |-> 0,
     content |-> {Url("https", "b.com", <<"z">>, 1, <<[k |-> "ref", v |-> "home"]>>)},
     sources |-> <<
        Source(1, "House Content", Url("https", "b.com", <<>>, 0, <<>>),
               Returns(<<>>)),
        Source(2, "Keyword Search", NoRes,
               Returns(<<Item(UZ, NoDate, SearchMeta, 0),
                         Item(UO, NoDate, SearchMeta, 0)>>)),
        Source(3, "YouTube Keywords", NoRes,
               Returns(<<Item(UV, 2, VideoMeta, 0)>>)),
        Source(4, "RSS Feed", Url("https", "b.com", <<"feed">>, 0, <<>>),
               Returns(<<Item(UO, 100, FeedMeta, 0),
                         Item(UZ, NoDate, RssMeta, 0)>>)) >>]

\* a search that finds the competitor's pages under both spellings of its
\* domain and the publication's own page under the www. spelling, and a site
\* source that links to the competitor
WorldOwn ==
    [publication_domain |-> "pub.com", terms |-> 2, content |-> {},
     sources |-> <<
        Source(1, "Competitor", Url("https", "www.b.com", <<>>, 0, <<>>),
               Returns(<<>>)),
        Source(2, "Keyword Search", NoRes,
               Returns(<<Item(UZ, NoDate, SearchMeta, 1),
                         Item(UC, NoDate, SearchMeta, 1),
                         Item(UW, NoDate, SearchMeta, 2)>>)),
        Source(3, "News Site", Url("https", "a.com", <<>>, 0, <<>>),
               Returns(<<Item(UZ, NoDate, EmptyMeta, 1)>>)) >>]

Worlds == {WorldDup, WorldErr, WorldFree, WorldOwn}

\* SCRAPER_REGISTRY
HasScraper(source_type) ==
    source_type \in {"RSS Feed", "News Site", "News", "Keyword Search",
                     "YouTube Keywords", "Data"}

\* the other spelling of a domain: with or without the "www." prefix
WwwToggle(domain) ==
    CASE domain = "b.com" -> "www.b.com"
      [] domain = "www.b.com" -> "b.com"
      [] domain = "a.com" -> "www.a.com"
      [] domain = "www.a.com" -> "a.com"
      [] domain = "pub.com" -> "www.pub.com"
      [] domain = "www.pub.com" -> "pub.com"
      [] OTHER -> domain

\* excluded_domains
ExcludedDomains(w) ==
    (IF w.publication_domain # "" THEN {Lower(w.publication_domain)} ELSE {})
    \cup UNION {{Lower(w.sources[i].url.netloc),
                 WwwToggle(Lower(w.sources[i].url.netloc))} :
                i \in {j \in DOMAIN w.sources :
                        /\ w.sources[j].source_type \in {"Competitor", "House Content"}
                        /\ w.sources[j].url # NoRes}}

IsPrefix(a, b) == Len(a) <= Len(b) /\ SubSeq(b, 1, Len(a)) = a

\* source_url ILIKE '%normalized%': the normalized URL, as text, occurs in
\* the stored source_url
ILikeContains(source_url, n) ==
    /\ Lower(source_url.scheme) = n.scheme
    /\ Lower(source_url.netloc) = n.netloc
    /\ IF n.query = <<>> THEN IsPrefix(n.segs, source_url.segs)
       ELSE /\ n.segs = source_url.segs
            /\ source_url.slashes = 0
            /\ IsPrefix(n.query, source_url.query)

\* dedup.py, is_already_content
is_already_content(url, w) ==
    \E c \in w.content : ILikeContains(c, normalize_url(url))

\* mutant: the stored rows are not consulted
is_duplicate_candidate_never(hash_value, rows) == FALSE

\* dedup.py, is_duplicate_candidate: a row of the publication with that
\* url_hash is visible to the query
is_duplicate_candidate(hash_value, rows) ==
    \E c \in rows : c.url_hash = hash_value

Rows(seq) == {seq[i] : i \in DOMAIN seq}

MAX_AGE_DAYS == 90

\* mutant: the hash of an item that passed is not remembered
SeenAfterPassForgets(hashes, hash_val) == hashes

\* seen_hashes.add(hash_val)
SeenAfterPass(hashes, hash_val) == hashes \cup {hash_val}

\* what the body of the phase-1 loop does with one item
Phase1(item, source, hashes, rows, w) ==
    IF item.url = BadUrl THEN "error"
    ELSE LET hash_val == url_hash(item.url)
             item_date == IF item.published_date # NoDate
                          THEN item.published_date
                          ELSE extract_date_from_url(item.url)
         IN  IF hash_val \in hashes THEN "seen"
             ELSE IF is_duplicate_candidate(hash_val, rows) THEN "stored"
             ELSE IF is_already_content(item.url, w) THEN "content"
             ELSE IF /\ source.source_type = "Keyword Search"
                     /\ ExcludedDomains(w) # {}
                     /\ Lower(item.url.netloc) \in ExcludedDomains(w)
             THEN "excluded_domain"
             ELSE IF item_date # NoDate /\ item_date > MAX_AGE_DAYS
             THEN "too_old"
             ELSE "pending"

StatsInit ==
    [sources_scanned |-> 0, total_discovered |-> 0, new_candidates |-> 0,
     skipped_duplicates |-> 0, skipped_excluded |-> 0, enriched |-> 0,
     enrichment_skipped |-> 0, enrichment_failed |-> 0,
     enrichment_budget_exhausted |-> 0, triage_relevant |-> 0,
     triage_maybe |-> 0, triage_rejected |-> 0, triage_skipped |-> 0,
     errors |-> 0, free_enrichments |-> 0]
Inc(st, key) == [st EXCEPT ![key] = @ + 1]

\* the counter phase 1 increments for a disposition
Phase1Counter(disp) ==
    CASE disp = "error" -> "errors"
      [] disp \in {"seen", "stored", "content"} -> "skipped_duplicates"
      [] disp \in {"excluded_domain", "too_old"} -> "skipped_excluded"


(***************************************************************************)
(* The candidate rows.  The model class CandidateArticle is not part of    *)
(* the sources at hand: a row has the columns the constructor calls name,  *)
(* a column no call sets has the column default, and (publication,         *)
(* url_hash) is unique.  run and path record who made the row.             *)
(***************************************************************************)
SCORE_COLUMN_DEFAULT == 0

Row(r, path, source_id, url, hash_val, status, scores, published_date, metadata) ==
    [run |-> r, path |-> path, news_source_id |-> source_id, url |-> url,
     url_hash |-> hash_val, status |-> status,
     relevance_score |-> scores.relevance_score,
     keyword_score |-> scores.keyword_score,
     recency_score |-> scores.recency_score,
     source_weight |-> scores.source_weight,
     published_date |-> published_date, extra_metadata |-> metadata]

ZeroScores ==
    [keyword_score |-> 0, recency_score |-> 0, source_weight |-> 0,
     relevance_score |-> 0]
DefaultScores ==
    [keyword_score |-> SCORE_COLUMN_DEFAULT, recency_score |-> SCORE_COLUMN_DEFAULT,
     source_weight |-> SCORE_COLUMN_DEFAULT, relevance_score |-> SCORE_COLUMN_DEFAULT]

\* the uniqueness constraint holds for the rows of a transaction put next
\* to the committed ones
UniqueOk(rows, committed) ==
    /\ \A i \in DOMAIN rows : \A c \in committed : c.url_hash # rows[i].url_hash
    /\ \A i, j \in DOMAIN rows : i # j => rows[i].url_hash # rows[j].url_hash

\* verdict_map.get(item.url, {})
NoVerdict == [verdict |-> None, reasoning |-> "", published_date |-> NoDate]
VerdictInfo(vmap, url) == IF url \in DOMAIN vmap THEN vmap[url] ELSE NoVerdict

\* reject_metadata / meta of a not_news item
RejectMetadata(metadata, v) ==
    Put(Put(metadata, "triage_verdict", v.verdict), "triage_reasoning", v.reasoning)

\* mutant: a not_news item is stored with the status of any other item
RejectedRowAsNew(r, pn, v) ==
    Row(r, "bulk", pn.source.id, pn.item.url, pn.hash_val, "new",
        ZeroScores, pn.item.published_date, RejectMetadata(pn.item.metadata, v))

\* the candidate phase 3 builds for a not_news item
RejectedRow(r, pn, v) ==
    Row(r, "bulk", pn.source.id, pn.item.url, pn.hash_val, "rejected",
        ZeroScores, pn.item.published_date, RejectMetadata(pn.item.metadata, v))

\* the candidate the one-by-one fallback builds
FallbackRow(r, pn, v) ==
    IF v.verdict = "not_news"
    THEN Row(r, "fallback", pn.source.id, pn.item.url, pn.hash_val, "rejected",
             DefaultScores, NoDate, RejectMetadata(pn.item.metadata, v))
    ELSE Row(r, "fallback", pn.source.id, pn.item.url, pn.hash_val, "new",
             DefaultScores, NoDate, EmptyMeta)

ENRICHMENT_MIN_SCORE == 2500
ENRICHMENT_MAX_PER_RUN == 1

\* mutant: the budget is not looked at
BudgetIgnored(is_free_enrichment, calls) == TRUE

\* is_free_enrichment or firecrawl_calls < enrichment_budget
WithinBudget(is_free_enrichment, calls) ==
    is_free_enrichment \/ calls < ENRICHMENT_MAX_PER_RUN

\* the date of the candidate: the item's own, else the first of the triage
\* date, the date enrichment extracted and the date in the URL
BackfillDate(item_date, triage_date, enrich_date, url_date) ==
    IF item_date # NoDate THEN item_date
    ELSE IF triage_date # NoDate THEN triage_date
    ELSE IF enrich_date # NoDate THEN enrich_date
    ELSE url_date

\* the scores of the candidate: when the item had no date and one was found,
\* recency and relevance are recomputed from the scores score_candidate
\* returned; rel1 is the relevance after the first multiplication
Rescore(scores, rel1, item_date, published_date, verdict) ==
    LET new_recency == compute_recency_score(published_date)
        base_relevance ==
            RoundDiv(scores.keyword_score * 50 + new_recency * 30
                     + scores.source_weight * 2000, 100)
    IN  IF item_date = NoDate /\ published_date # NoDate
        THEN [scores EXCEPT
                !.recency_score = new_recency,
                !.relevance_score =
                   IF verdict # None
                   THEN ApplyMultiplier(base_relevance, verdict)
                   ELSE base_relevance]
        ELSE [scores EXCEPT !.relevance_score = rel1]

\* phase 3 for an item that is not not_news: scoring, multiplier, enrichment,
\* date backfill and rescoring, the candidate
ScoredItem(r, pn, v, st, blocked, ext, w) ==
    LET type == pn.source.source_type
        scores == score_candidate(pn.item.matches, w.terms,
                                  pn.item.published_date, type)
        rel1 == IF v.verdict # None
                THEN ApplyMultiplier(scores.relevance_score, v.verdict)
                ELSE scores.relevance_score
        meta0 == pn.item.metadata
        wants_enrichment == rel1 >= ENRICHMENT_MIN_SCORE /\ type # "Data"
        is_free_enrichment ==
            Has(meta0, "rss_full_content") \/ type = "YouTube Keywords"
        firecrawl_calls ==
            st.enriched + st.enrichment_failed - st.free_enrichments
        calls_enrich ==
            wants_enrichment /\ WithinBudget(is_free_enrichment, firecrawl_calls)
        e == enrich_item(meta0, type, blocked, ext)
        meta1 == IF calls_enrich THEN e.meta ELSE meta0
        failed == Get(meta1, "enrichment_failed", "False") = "True"
        st1 == IF calls_enrich
               THEN IF failed THEN Inc(st, "enrichment_failed")
                    ELSE IF is_free_enrichment
                    THEN Inc(Inc(st, "enriched"), "free_enrichments")
                    ELSE Inc(st, "enriched")
               ELSE IF wants_enrichment
               THEN Inc(Inc(st, "enrichment_budget_exhausted"), "enrichment_skipped")
               ELSE Inc(st, "enrichment_skipped")
        published_date ==
            BackfillDate(pn.item.published_date, v.published_date,
                         Get(meta1, "extracted_published_date", NoDate),
                         extract_date_from_url(pn.item.url))
        final == Rescore(scores, rel1, pn.item.published_date, published_date,
                         v.verdict)
        meta2 == IF v.verdict # None THEN RejectMetadata(meta1, v) ELSE meta1
    IN  [row |-> Row(r, "bulk", pn.source.id, pn.item.url, pn.hash_val, "new",
                     final, published_date, meta2),
         stats |-> Inc(st1, "new_candidates"),
         metadata |-> meta2,
         called |-> calls_enrich,
         paid |-> calls_enrich /\ ~is_free_enrichment,
         blocked |-> IF calls_enrich THEN e.blocked ELSE blocked]

\* cli.py, test-triage --save: url + '?_triage_test=1', as urlparse reads it
AppendTriageTest(u) ==
    IF u.frag # "" THEN [u EXCEPT !.frag = @ \o "?_triage_test=1"]
    ELSE IF u.query # <<>>
    THEN [u EXCEPT !.query[Len(u.query)].v = @ \o "?_triage_test=1"]
    ELSE [u EXCEPT !.query = <<[k |-> "_triage_test", v |-> "1"]>>]

\* the candidate test-triage --save builds for a sampled item
TestTriageRow(url, verdict) ==
    Row(0, "cli", 0, url, url_hash(AppendTriageTest(url)),
        IF verdict = "not_news" THEN "rejected" ELSE "new",
        [DefaultScores EXCEPT !.relevance_score = 0], NoDate,
        [x \in {"triage_test", "triage_verdict", "triage_reasoning"} |->
            IF x = "triage_verdict" THEN verdict ELSE "text"])


(***************************************************************************)
(* Spec: executions of research_publication_sources for one publication,   *)
(* one after another (a retry is a new execution), next to another writer  *)
(* of the candidate table and test-triage --save.                          *)
(***************************************************************************)
MaxRuns == 2
MaxFaults == 2
MaxOtherWrites == 1
MAX_RETRIES == 2

\* mutant: a retry request that is never refused
SelfRetryForever(retries) == "retry"

\* self.retry(exc=e2) of a task bound with max_retries=2: the task is queued
\* again while it has been retried fewer than max_retries times, otherwise the
\* exception e2 is raised and the task fails
SelfRetry(retries) == IF retries < MAX_RETRIES THEN "retry" ELSE "failed"

\* _SKIP_TRIAGE_SOURCE_TYPES
\* mutant: no source type skips triage
SKIP_TRIAGE_NOTHING == {}

\* _SKIP_TRIAGE_SOURCE_TYPES
SKIP_TRIAGE_SOURCE_TYPES == {"Data", "House Content"}

\* what triage_items may answer for one item
RunVerdicts ==
    {[verdict |-> "relevant_news", reasoning |-> "on topic", published_date |-> 5],
     [verdict |-> "maybe", reasoning |-> "triage fallback", published_date |-> NoDate],
     [verdict |-> "not_news", reasoning |-> "a listing page", published_date |-> NoDate]}

\* what the services enrichment calls may do: all answer, or all fail
ExtUp ==
    [scrapable |-> TRUE, api_key |-> TRUE, video_id |-> TRUE, scrape |-> "markdown",
     yt |-> "ok", page_date |-> 3, url_date |-> NoDate]
ExtDown ==
    [scrapable |-> TRUE, api_key |-> TRUE, video_id |-> TRUE, scrape |-> "raises",
     yt |-> "Could not retrieve a transcript: YouTube is blocking requests from your IP",
     page_date |-> NoDate, url_date |-> NoDate]
RunExts == {ExtUp, ExtDown}

SrcInfo(source) == [id |-> source.id, source_type |-> source.source_type]

\* mutant: the except clause of an item loop does not count
OnItemErrorSilent(st) == st

\* the except clause of the item loops of phase 1 and phase 3
OnItemError(st) == Inc(st, "errors")

Init ==
    /\ world \in Worlds
    /\ store = {}
    /\ rpc = "idle"
    /\ run = 0
    /\ attempt = 0
    /\ srcIdx = 1
    /\ ritems = <<>>
    /\ itemIdx = 1
    /\ pending = <<>>
    /\ seen = {}
    /\ verdict_map = <<>>
    /\ session = <<>>
    /\ stats = StatsInit
    /\ disc = <<>>
    /\ p3 = <<>>
    /\ faults = [item |-> 0, db |-> 0, flush |-> 0]
    /\ foreign = [commits |-> 0, cli |-> 0]
    /\ youtube_blocked = FALSE
    /\ ecalls = 0
    /\ eres = NoRes
    /\ NormIdle
    /\ TriageIdle
    /\ ScrapeIdle
    /\ CrawlIdle
    /\ SchedIdle
    /\ ConfigIdle
    /\ AnglesIdle
    /\ BackfillIdle
    /\ FcIdle
    /\ RetryIdle
    /\ ApiIdle
    /\ ProbeIdle
    /\ ScoreIdle

\* the task starts: lines 312-362
Begin(retries) ==
    /\ run' = run + 1
    /\ attempt' = retries
    /\ rpc' = "scan"
    /\ srcIdx' = 1
    /\ ritems' = <<>>
    /\ itemIdx' = 1
    /\ pending' = <<>>
    /\ seen' = {}
    /\ verdict_map' = <<>>
    /\ session' = <<>>
    /\ stats' = StatsInit
    /\ p3' = <<>>
    /\ disc' = <<>>
    /\ UNCHANGED <<world, store, faults, foreign, youtube_blocked, notRunVars>>

\* the scheduler (or a user) starts a run
StartRun ==
    /\ rpc \in {"idle", "done", "done_fallback", "failed"}
    /\ run < MaxRuns
    /\ Begin(0)

\* celery re-executes the task after self.retry
RetryRun ==
    /\ rpc = "retry"
    /\ run < MaxRuns
    /\ Begin(attempt + 1)

\* one iteration of "for source in sources" up to the item loop
ScanSource ==
    /\ rpc = "scan"
    /\ srcIdx <= Len(world.sources)
    /\ LET source == world.sources[srcIdx]
       IN  IF ~HasScraper(source.source_type)
           THEN /\ srcIdx' = srcIdx + 1
                /\ UNCHANGED <<stats, ritems, rpc>>
           ELSE IF source.result.raised
           THEN /\ stats' = Inc(stats, "errors")
                /\ srcIdx' = srcIdx + 1
                /\ UNCHANGED <<ritems, rpc>>
           ELSE /\ stats' = [stats EXCEPT
                                !.sources_scanned = @ + 1,
                                !.total_discovered = @ + Len(source.result.items)]
                /\ IF source.result.items = <<>>
                   THEN /\ srcIdx' = srcIdx + 1
                        /\ UNCHANGED <<ritems, rpc>>
                   ELSE /\ ritems' = source.result.items
                        /\ rpc' = "dedup"
                        /\ UNCHANGED srcIdx
    /\ UNCHANGED <<world, store, run, attempt, itemIdx, pending, seen,
                   verdict_map, session, disc, p3, faults, foreign,
                   youtube_blocked, notRunVars>>

\* mutant: an item phase 1 skipped is kept for the later phases all the same
DedupItemKeepsAll ==
    /\ rpc = "dedup"
    /\ LET item == ritems[itemIdx]
           source == world.sources[srcIdx]
           disp == Phase1(item, source, seen, store, world)
       IN  /\ disc' = Append(disc, [run |-> run, source |-> source.id,
                                    url |-> item.url, disp |-> disp])
           /\ stats' = IF disp = "pending" THEN stats
                       ELSE IF disp = "error" THEN OnItemError(stats)
                       ELSE Inc(stats, Phase1Counter(disp))
           /\ seen' = IF disp = "pending"
                      THEN SeenAfterPass(seen, url_hash(item.url)) ELSE seen
           /\ pending' = IF disp # "error"
                         THEN Append(pending, [item |-> item, source |-> SrcInfo(source),
                                               hash_val |-> url_hash(item.url)])
                         ELSE pending
    /\ IF itemIdx = Len(ritems)
       THEN /\ rpc' = "scan"
            /\ srcIdx' = srcIdx + 1
            /\ itemIdx' = 1
            /\ ritems' = <<>>
       ELSE /\ itemIdx' = itemIdx + 1
            /\ UNCHANGED <<rpc, srcIdx, ritems>>
    /\ UNCHANGED <<world, store, run, attempt, verdict_map, session, p3, faults,
                   foreign, youtube_blocked, notRunVars>>

\* one iteration of "for item in items" of phase 1
DedupItem ==
    /\ rpc = "dedup"
    /\ LET item == ritems[itemIdx]
           source == world.sources[srcIdx]
           disp == Phase1(item, source, seen, store, world)
       IN  /\ disc' = Append(disc, [run |-> run, source |-> source.id,
                                    url |-> item.url, disp |-> disp])
           /\ stats' = IF disp = "pending" THEN stats
                       ELSE IF disp = "error" THEN OnItemError(stats)
                       ELSE Inc(stats, Phase1Counter(disp))
           /\ seen' = IF disp = "pending"
                      THEN SeenAfterPass(seen, url_hash(item.url)) ELSE seen
           /\ pending' = IF disp = "pending"
                         THEN Append(pending, [item |-> item, source |-> SrcInfo(source),
                                               hash_val |-> url_hash(item.url)])
                         ELSE pending
    /\ IF itemIdx = Len(ritems)
       THEN /\ rpc' = "scan"
            /\ srcIdx' = srcIdx + 1
            /\ itemIdx' = 1
            /\ ritems' = <<>>
       ELSE /\ itemIdx' = itemIdx + 1
            /\ UNCHANGED <<rpc, srcIdx, ritems>>
    /\ UNCHANGED <<world, store, run, attempt, verdict_map, session, p3, faults,
                   foreign, youtube_blocked, notRunVars>>

\* phase 2: triage_items answers one verdict record per triaged item;
\* verdict_map keeps, per URL, the last
Triage ==
    /\ rpc = "scan"
    /\ srcIdx > Len(world.sources)
    /\ LET triaged == {i \in DOMAIN pending :
                          pending[i].source.source_type \notin SKIP_TRIAGE_SOURCE_TYPES}
           urls == {pending[i].item.url : i \in triaged}
           Last(u) == CHOOSE i \in triaged :
                          /\ pending[i].item.url = u
                          /\ \A j \in triaged : pending[j].item.url = u => j <= i
       IN  \E f \in [triaged -> RunVerdicts] :
              /\ verdict_map' =
                    [u \in urls |-> VerdictRecord(u, f[Last(u)].verdict,
                                                  f[Last(u)].reasoning,
                                                  f[Last(u)].published_date)]
              /\ stats' = [stats EXCEPT
                    !.triage_skipped = @ + Cardinality(DOMAIN pending \ triaged),
                    !.triage_relevant =
                        @ + Cardinality({i \in triaged : f[i].verdict = "relevant_news"}),
                    !.triage_maybe =
                        @ + Cardinality({i \in triaged : f[i].verdict = "maybe"}),
                    !.triage_rejected =
                        @ + Cardinality({i \in triaged : f[i].verdict = "not_news"})]
    /\ rpc' = "score"
    /\ itemIdx' = 1
    /\ UNCHANGED <<world, store, run, attempt, srcIdx, ritems, pending, seen,
                   session, disc, p3, faults, foreign, youtube_blocked, notRunVars>>

\* item.metadata after "x = item.metadata or {}" and assignments to x that
\* gave meta: an empty dict is falsy, so x was a fresh dict
Aliased(pn, meta) ==
    IF pn.item.metadata = EmptyMeta THEN pn
    ELSE [pn EXCEPT !.item.metadata = meta]

\* one iteration of the phase-3 loop that ends in db.session.add
ScoreItem ==
    /\ rpc = "score"
    /\ itemIdx <= Len(pending)
    /\ LET pn == pending[itemIdx]
           v == VerdictInfo(verdict_map, pn.item.url)
       IN  IF v.verdict = "not_news"
           THEN /\ session' = Append(session, RejectedRow(run, pn, v))
                /\ stats' = Inc(stats, "new_candidates")
                /\ pending' = [pending EXCEPT
                                  ![itemIdx] = Aliased(pn, RejectMetadata(pn.item.metadata, v))]
                /\ p3' = Append(p3, [what |-> "rejected", enrich |-> FALSE, paid |-> FALSE])
                /\ UNCHANGED youtube_blocked
           ELSE \E ext \in RunExts :
                  LET r == ScoredItem(run, pn, v, stats, youtube_blocked, ext, world)
                  IN  /\ session' = Append(session, r.row)
                      /\ stats' = r.stats
                      /\ pending' = [pending EXCEPT ![itemIdx] = Aliased(pn, r.metadata)]
                      /\ p3' = Append(p3, [what |-> "scored", enrich |-> r.called,
                                           paid |-> r.paid])
                      /\ youtube_blocked' = r.blocked
    /\ itemIdx' = itemIdx + 1
    /\ UNCHANGED <<world, store, rpc, run, attempt, srcIdx, ritems, seen,
                   verdict_map, disc, faults, foreign, notRunVars>>

\* one iteration of the phase-3 loop that ends in the except clause: the
\* calls that can raise are those of the scored branch
ScoreItemRaises ==
    /\ rpc = "score"
    /\ itemIdx <= Len(pending)
    /\ faults.item + faults.db < MaxFaults
    /\ VerdictInfo(verdict_map, pending[itemIdx].item.url).verdict # "not_news"
    /\ stats' = OnItemError(stats)
    /\ p3' = Append(p3, [what |-> "raised", enrich |-> FALSE, paid |-> FALSE])
    /\ faults' = [faults EXCEPT !.item = @ + 1]
    /\ itemIdx' = itemIdx + 1
    /\ UNCHANGED <<world, store, rpc, run, attempt, srcIdx, ritems, pending, seen,
                   verdict_map, session, disc, foreign, youtube_blocked, notRunVars>>

\* lines 598-601: flush and commit of the whole batch succeed
BulkCommitOk ==
    /\ rpc = "score"
    /\ itemIdx > Len(pending)
    /\ UniqueOk(session, store)
    /\ store' = store \cup Rows(session)
    /\ session' = <<>>
    /\ rpc' = "done"
    /\ UNCHANGED <<world, run, attempt, srcIdx, ritems, itemIdx, pending, seen,
                   verdict_map, stats, disc, p3, faults, foreign,
                   youtube_blocked, notRunVars>>

\* lines 602-609: flush or commit raises (a uniqueness violation, or the
\* database fails), the batch is rolled back
BulkCommitFails ==
    /\ rpc = "score"
    /\ itemIdx > Len(pending)
    /\ ~UniqueOk(session, store) \/ faults.item + faults.db < MaxFaults
    /\ faults' = IF UniqueOk(session, store)
                 THEN [faults EXCEPT !.db = @ + 1] ELSE faults
    /\ session' = <<>>
    /\ rpc' = "fallback"
    /\ itemIdx' = 1
    /\ UNCHANGED <<world, store, run, attempt, srcIdx, ritems, pending, seen,
                   verdict_map, stats, disc, p3, foreign, youtube_blocked,
                   notRunVars>>

\* mutant: the one-by-one loop re-persists nothing
FallbackItemSkips ==
    /\ rpc = "fallback"
    /\ itemIdx <= Len(pending)
    /\ itemIdx' = itemIdx + 1
    /\ UNCHANGED <<world, store, rpc, run, attempt, srcIdx, ritems, pending, seen,
                   verdict_map, session, stats, disc, p3, faults, foreign,
                   youtube_blocked, notRunVars>>

\* one iteration of the one-by-one loop: skipped as duplicate, or added and
\* flushed
FallbackItem ==
    /\ rpc = "fallback"
    /\ itemIdx <= Len(pending)
    /\ LET pn == pending[itemIdx]
           v == VerdictInfo(verdict_map, pn.item.url)
       IN  IF is_duplicate_candidate(pn.hash_val, store \cup Rows(session))
           THEN UNCHANGED session
           ELSE session' = Append(session, FallbackRow(run, pn, v))
    /\ itemIdx' = itemIdx + 1
    /\ UNCHANGED <<world, store, rpc, run, attempt, srcIdx, ritems, pending, seen,
                   verdict_map, stats, disc, p3, faults, foreign,
                   youtube_blocked, notRunVars>>

\* one iteration of the one-by-one loop whose flush raises: the rollback
\* empties the transaction
FallbackItemFails ==
    /\ rpc = "fallback"
    /\ itemIdx <= Len(pending)
    /\ faults.item + faults.db < MaxFaults
    /\ ~is_duplicate_candidate(pending[itemIdx].hash_val, store \cup Rows(session))
    /\ faults' = [faults EXCEPT !.db = @ + 1, !.flush = @ + 1]
    /\ session' = <<>>
    /\ itemIdx' = itemIdx + 1
    /\ UNCHANGED <<world, store, rpc, run, attempt, srcIdx, ritems, pending, seen,
                   verdict_map, stats, disc, p3, foreign, youtube_blocked,
                   notRunVars>>

\* lines 649-651
FallbackCommitOk ==
    /\ rpc = "fallback"
    /\ itemIdx > Len(pending)
    /\ UniqueOk(session, store)
    /\ store' = store \cup Rows(session)
    /\ session' = <<>>
    /\ rpc' = "done_fallback"
    /\ UNCHANGED <<world, run, attempt, srcIdx, ritems, itemIdx, pending, seen,
                   verdict_map, stats, disc, p3, faults, foreign,
                   youtube_blocked, notRunVars>>

\* lines 652-655: self.retry raises Retry while retries are left, and the
\* exception itself after that
FallbackCommitFails ==
    /\ rpc = "fallback"
    /\ itemIdx > Len(pending)
    /\ faults.item + faults.db < MaxFaults
    /\ faults' = [faults EXCEPT !.db = @ + 1]
    /\ session' = <<>>
    /\ rpc' = SelfRetry(attempt)
    /\ UNCHANGED <<world, store, run, attempt, srcIdx, ritems, itemIdx, pending,
                   seen, verdict_map, stats, disc, p3, foreign, youtube_blocked,
                   notRunVars>>

\* another execution of the task (another worker) commits its candidate for
\* an item this run holds pending; rows this run has flushed block it
ForeignCommit ==
    /\ rpc \in {"score", "fallback"}
    /\ foreign.commits + foreign.cli < MaxOtherWrites
    /\ \E i \in DOMAIN pending :
          /\ ~is_duplicate_candidate(pending[i].hash_val, store)
          /\ rpc = "fallback" =>
                ~is_duplicate_candidate(pending[i].hash_val, Rows(session))
          /\ store' = store \cup
                {Row(0, "foreign", pending[i].source.id, pending[i].item.url,
                     url_hash(pending[i].item.url), "new", DefaultScores, NoDate,
                     EmptyMeta)}
    /\ foreign' = [foreign EXCEPT !.commits = @ + 1]
    /\ UNCHANGED <<world, rpc, run, attempt, srcIdx, ritems, itemIdx, pending,
                   seen, verdict_map, session, stats, disc, p3, faults,
                   youtube_blocked, notRunVars>>

\* flask test-triage --save on one candidate sampled from the table, run
\* by a user between two executions of the task
TestTriageSave ==
    /\ rpc \in {"done", "done_fallback", "failed"}
    /\ foreign.commits + foreign.cli < MaxOtherWrites
    /\ \E c \in store : \E verdict \in {"maybe", "not_news"} :
          /\ c.path # "cli"
          /\ ~is_duplicate_candidate(TestTriageRow(c.url, verdict).url_hash, store)
          /\ store' = store \cup {TestTriageRow(c.url, verdict)}
    /\ foreign' = [foreign EXCEPT !.cli = @ + 1]
    /\ UNCHANGED <<world, rpc, run, attempt, srcIdx, ritems, itemIdx, pending,
                   seen, verdict_map, session, stats, disc, p3, faults,
                   youtube_blocked, notRunVars>>

Next ==
    \/ StartRun
    \/ RetryRun
    \/ ScanSource
    \/ DedupItem
    \/ Triage
    \/ ScoreItem
    \/ ScoreItemRaises
    \/ BulkCommitOk
    \/ BulkCommitFails
    \/ FallbackItem
    \/ FallbackItemFails
    \/ FallbackCommitOk
    \/ FallbackCommitFails
    \/ ForeignCommit
    \/ TestTriageSave

Spec == Init /\ [][Next]_vars


(***************************************************************************)
(* Properties of the research run                                          *)
(***************************************************************************)
\* the discoveries of the current execution, as indices of disc
ThisRunDisc == {j \in DOMAIN disc : disc[j].run = run}
\* the discoveries whose URL could be hashed
Hashed == {j \in DOMAIN disc : disc[j].disp # "error"}
DiscHash(j) == Sha256(normalize_url(disc[j].url))
DupDisps == {"seen", "stored", "content"}
RowsOfRun(rows, r) == {c \in rows : c.run = r /\ c.path \in {"bulk", "fallback"}}
Verdict(i) == VerdictInfo(verdict_map, pending[i].item.url)

\* skipped_duplicates counts the discoveries dropped as duplicates
SkippedDuplicatesCounted ==
    stats.skipped_duplicates =
        Cardinality({j \in ThisRunDisc : disc[j].disp \in DupDisps})

StoredEarlier(j) ==
    \E c \in store : /\ c.path \in {"bulk", "fallback"}
                     /\ c.run < disc[j].run
                     /\ c.url_hash = DiscHash(j)

\* C2: a discovery whose hash an earlier run stored is dropped as a
\* duplicate and counted in skipped_duplicates, its run makes no candidate
\* for that hash, and a run makes no more candidates than it made
\* discoveries that no earlier run had stored (none, when all were stored).
C2_LaterRunsSkipStored ==
    /\ SkippedDuplicatesCounted
    /\ \A j \in Hashed : StoredEarlier(j) =>
          /\ disc[j].disp = "stored"
          /\ \A c \in RowsOfRun(store \cup Rows(session), disc[j].run) :
                c.url_hash # DiscHash(j)
          /\ disc[j].run = run =>
                \A k \in DOMAIN pending : pending[k].hash_val # DiscHash(j)
    /\ stats.new_candidates <=
          Cardinality({j \in ThisRunDisc \cap Hashed : ~StoredEarlier(j)})

\* a second run that found only what the first had stored
C2_Witness ==
    /\ run = 2
    /\ rpc = "done"
    /\ stats.total_discovered >= 2
    /\ \A j \in ThisRunDisc \cap Hashed : StoredEarlier(j) /\ disc[j].disp = "stored"
    /\ \E j \in ThisRunDisc : j \in Hashed
    /\ stats.new_candidates = 0
    /\ stats.skipped_duplicates >= 2
    /\ RowsOfRun(store, 2) = {}

\* C4 as stated: the url_hash of every row of the table is the hash of the
\* normalized form of the row's own url.
C4_EveryRowHashesItsUrl ==
    \A c \in store : c.url_hash = Sha256(normalize_url(c.url))

\* C4, amended: the url_hash of a row the research task wrote (in the batch
\* or one by one) is the hash of the normalized form of the row's url; the
\* url_hash of a row test-triage --save wrote is the hash of the normalized
\* form of the row's url with "?_triage_test=1" appended.
C4_TaskRowsHashTheirUrl ==
    \A c \in store \cup Rows(session) :
        IF c.path = "cli"
        THEN c.url_hash = Sha256(normalize_url(AppendTriageTest(c.url)))
        ELSE c.url_hash = Sha256(normalize_url(c.url))

\* the table holds a batch row whose url is not in normal form, a row written
\* one by one, and a test-triage row
C4_Witness ==
    /\ \E c \in store : /\ c.path = "bulk"
                        /\ c.url # normalize_url(c.url)
                        /\ c.url_hash = Sha256(normalize_url(c.url))
    /\ \E c \in store : c.path = "fallback"
    /\ \E c \in store : /\ c.path = "cli"
                        /\ c.url_hash # Sha256(normalize_url(c.url))

\* the candidate of pending item i among rows: rejected, zero relevance,
\* verdict and reasoning in the metadata
RejectedIn(rows, i) ==
    \E c \in RowsOfRun(rows, run) :
        /\ c.url_hash = pending[i].hash_val
        /\ c.url = pending[i].item.url
        /\ c.status = "rejected"
        /\ c.relevance_score = 0
        /\ Get(c.extra_metadata, "triage_verdict", None) = "not_news"
        /\ Get(c.extra_metadata, "triage_reasoning", None) = Verdict(i).reasoning

ScraperRaises(k) ==
    Cardinality({n \in 1..(k - 1) :
                    /\ n <= Len(world.sources)
                    /\ HasScraper(world.sources[n].source_type)
                    /\ world.sources[n].result.raised})
RECURSIVE ItemsOfSources(_)
\* the number of items the scrapers of the sources 1..k returned
ItemsOfSources(k) ==
    IF k = 0 THEN 0
    ELSE ItemsOfSources(k - 1)
         + (IF HasScraper(world.sources[k].source_type)
            THEN Len(world.sources[k].result.items) ELSE 0)

\* C10: every exception of an item in phase 1 or phase 3 adds exactly one
\* to errors, the loop goes on with the next item, and each pending item
\* whose processing did not raise has its candidate in the transaction at the
\* end of phase 3 and in the table after the batch commit.
C10_ItemErrorsCountedAndSkipped ==
    /\ stats.errors = ScraperRaises(srcIdx)
                      + Cardinality({j \in ThisRunDisc : disc[j].disp = "error"})
                      + Cardinality({i \in DOMAIN p3 : p3[i].what = "raised"})
    /\ rpc \in {"scan", "dedup"} =>
          Cardinality(ThisRunDisc) =
              ItemsOfSources(srcIdx - 1) + (IF rpc = "dedup" THEN itemIdx - 1 ELSE 0)
    /\ rpc \notin {"idle", "scan", "dedup"} =>
          /\ Cardinality(ThisRunDisc) = ItemsOfSources(Len(world.sources))
          /\ Len(pending) = Cardinality({j \in ThisRunDisc : disc[j].disp = "pending"})
    /\ rpc = "score" =>
          /\ Len(p3) = itemIdx - 1
          /\ \A i \in DOMAIN p3 : p3[i].what # "raised" =>
                \E c \in RowsOfRun(Rows(session), run) :
                    c.url_hash = pending[i].hash_val
    /\ rpc \notin {"idle", "scan", "dedup", "score"} => Len(p3) = Len(pending)
    /\ rpc = "done" =>
          \A i \in DOMAIN p3 : p3[i].what # "raised" =>
              \E c \in RowsOfRun(store, run) : c.url_hash = pending[i].hash_val

\* a finished run with an item that raised in phase 1, one that raised in
\* phase 3 after another had been scored, and the items after them stored
C10_Witness ==
    /\ rpc = "done"
    /\ \E j \in ThisRunDisc : disc[j].disp = "error"
    /\ \E j, k \in ThisRunDisc : j < k /\ disc[j].disp = "error" /\ disc[k].disp = "pending"
    /\ \E i, k \in DOMAIN p3 :
          /\ i < k
          /\ p3[i].what = "raised"
          /\ p3[k].what # "raised"
          /\ \E c \in RowsOfRun(store, run) : c.url_hash = pending[k].hash_val
    /\ stats.errors = 3
    /\ stats.new_candidates = Len(pending) - 1


\* the exceptions of scrapers and items the run has counted (see C10)
ItemErrors ==
    ScraperRaises(srcIdx)
    + Cardinality({j \in ThisRunDisc : disc[j].disp = "error"})
    + Cardinality({i \in DOMAIN p3 : p3[i].what = "raised"})
\* the pending items whose hash another writer stored: the collisions of the
\* batch commit
Collided == {i \in DOMAIN pending :
                \E c \in store : c.path = "foreign" /\ c.url_hash = pending[i].hash_val}

\* the one-by-one path stores a candidate for every pending item that did
\* not collide, when nothing but the collisions failed
FallbackPersistsTheRest ==
    (rpc = "done_fallback" /\ faults.db = 0) =>
        \A i \in DOMAIN pending \ Collided :
            \E c \in RowsOfRun(store, run) :
                c.path = "fallback" /\ c.url_hash = pending[i].hash_val

\* C11 as stated: after a batch commit that failed on k collisions and a
\* one-by-one pass, the other candidates are stored and the run has counted
\* k errors for the collisions.
C11_FallbackCountsCollisions ==
    (rpc = "done_fallback" /\ faults.db = 0) =>
        /\ \A i \in DOMAIN pending \ Collided :
              \E c \in RowsOfRun(store, run) : c.url_hash = pending[i].hash_val
        /\ stats.errors = ItemErrors + Cardinality(Collided)

(***************************************************************************)
(* The managed crawl API and its process-wide limiter                      *)
(* (research/enrichment.py, research/scrapers.py).  Threads of one worker  *)
(* process send requests to api.firecrawl.dev: _firecrawl_scrape (article  *)
(* enrichment and the triage page fetch) goes through                      *)
(* _firecrawl_rate_limit; the scrapers post to /v1/map and /v1/scrape      *)
(* directly.  Time is time.monotonic() in whole seconds.                   *)
(***************************************************************************)
FIRECRAWL_MIN_INTERVAL == 6

NumThreads == 2
MaxCrawlRequests == 2
MaxClock == 12

Threads == 1..NumThreads

\* the callers of _firecrawl_scrape
LimitedKinds == {"enrich", "triage_fetch"}

ThreadIdle == [pc |-> "idle", kind |-> None, attempt |-> 0, wake |-> 0, grant |-> 0]

\* time is counted from the start of the process
InitCrawl ==
    /\ cclock = 0
    /\ clast = 0
    /\ cheld = 0
    /\ cthr = [t \in Threads |-> ThreadIdle]
    /\ clog = <<>>
    /\ NormIdle
    /\ EnrichIdle
    /\ TriageIdle
    /\ ScrapeIdle
    /\ RunIdle
    /\ ScoreIdle
    /\ ProbeIdle
    /\ ApiIdle
    /\ RetryIdle
    /\ FcIdle
    /\ BackfillIdle
    /\ AnglesIdle
    /\ ConfigIdle
    /\ SchedIdle

Sent == Len(clog)

LogRequest(kind, granted, limited) ==
    Append(clog, [kind |-> kind, granted |-> granted, limited |-> limited])

\* _firecrawl_scrape is entered: attempt 0 of range(2)
FirecrawlScrape(t, kind) ==
    /\ cthr[t].pc = "idle"
    /\ Sent < MaxCrawlRequests
    /\ cthr' = [cthr EXCEPT ![t] = [ThreadIdle EXCEPT !.pc = "limit", !.kind = kind]]
    /\ UNCHANGED <<cclock, clast, cheld, clog, notCrlVars>>

\* _firecrawl_rate_limit: `with _firecrawl_lock`, then the wait is computed
\* from _firecrawl_last_call while the lock is held
RateLimitAcquire(t) ==
    /\ cthr[t].pc = "limit"
    /\ cheld = 0
    /\ cheld' = t
    /\ cthr' = [cthr EXCEPT ![t].pc = "sleep",
                            ![t].wake = IF cclock - clast < FIRECRAWL_MIN_INTERVAL
                                        THEN clast + FIRECRAWL_MIN_INTERVAL
                                        ELSE cclock]
    /\ UNCHANGED <<cclock, clast, clog, notCrlVars>>

\* the sleep is over: stamp _firecrawl_last_call and release the lock
RateLimitRelease(t) ==
    /\ cthr[t].pc = "sleep"
    /\ cheld = t
    /\ cclock >= cthr[t].wake
    /\ clast' = cclock
    /\ cheld' = 0
    /\ cthr' = [cthr EXCEPT ![t].pc = "post", ![t].grant = cclock]
    /\ UNCHANGED <<cclock, clog, notCrlVars>>

\* requests.post(/v1/scrape) answered with data or a final error
ScrapePost(t) ==
    /\ cthr[t].pc = "post"
    /\ clog' = LogRequest(cthr[t].kind, cthr[t].grant, TRUE)
    /\ cthr' = [cthr EXCEPT ![t] = ThreadIdle]
    /\ UNCHANGED <<cclock, clast, cheld, notCrlVars>>

\* requests.post(/v1/scrape) answered 429 on attempt 0: sleep, then
\* `continue` into attempt 1, through the limiter again
ScrapePost429(t) ==
    /\ cthr[t].pc = "post"
    /\ cthr[t].attempt = 0
    /\ Sent + 1 < MaxCrawlRequests
    /\ clog' = LogRequest(cthr[t].kind, cthr[t].grant, TRUE)
    /\ cthr' = [cthr EXCEPT ![t].pc = "limit", ![t].attempt = 1]
    /\ UNCHANGED <<cclock, clast, cheld, notCrlVars>>

\* NewsSiteScraper._map_site: requests.post(/v1/map), no limiter call
MapSiteRequest(t) ==
    /\ cthr[t].pc = "idle"
    /\ Sent < MaxCrawlRequests
    /\ clog' = LogRequest("map", cclock, FALSE)
    /\ UNCHANGED <<cclock, clast, cheld, cthr, notCrlVars>>

\* NewsSiteScraper._scrape_links_fallback: requests.post(/v1/scrape), no
\* limiter call
ScrapeLinksFallbackRequest(t) ==
    /\ cthr[t].pc = "idle"
    /\ Sent < MaxCrawlRequests
    /\ clog' = LogRequest("links_fallback", cclock, FALSE)
    /\ UNCHANGED <<cclock, clast, cheld, cthr, notCrlVars>>

\* DataScraper._discover_via_landing_page: requests.post(/v1/scrape), no
\* limiter call
LandingPageRequest(t) ==
    /\ cthr[t].pc = "idle"
    /\ Sent < MaxCrawlRequests
    /\ clog' = LogRequest("landing_page", cclock, FALSE)
    /\ UNCHANGED <<cclock, clast, cheld, cthr, notCrlVars>>

\* one second passes
Tick ==
    /\ cclock < MaxClock
    /\ cclock' = cclock + 1
    /\ UNCHANGED <<clast, cheld, cthr, clog, notCrlVars>>

NextCrawl ==
    \/ \E t \in Threads, kind \in LimitedKinds : FirecrawlScrape(t, kind)
    \/ \E t \in Threads : RateLimitAcquire(t)
    \/ \E t \in Threads : RateLimitRelease(t)
    \/ \E t \in Threads : ScrapePost(t)
    \/ \E t \in Threads : ScrapePost429(t)
    \/ \E t \in Threads : MapSiteRequest(t)
    \/ \E t \in Threads : ScrapeLinksFallbackRequest(t)
    \/ \E t \in Threads : LandingPageRequest(t)
    \/ Tick

SpecCrawl == InitCrawl /\ [][NextCrawl]_vars

Apart(i, j) ==
    \/ clog[i].granted - clog[j].granted >= FIRECRAWL_MIN_INTERVAL
    \/ clog[j].granted - clog[i].granted >= FIRECRAWL_MIN_INTERVAL

\* the requests that do pass the limiter are spaced by it
LimitedRequestsSpaced ==
    \A i, j \in DOMAIN clog :
        (i # j /\ clog[i].limited /\ clog[j].limited) => Apart(i, j)

\* C13 as stated: every request sent to the crawl API has passed the shared
\* limiter, and any two requests were granted at least
\* FIRECRAWL_MIN_INTERVAL seconds apart.
C13_EveryCrawlRequestIsLimited ==
    /\ \A i \in DOMAIN clog : clog[i].limited
    /\ \A i, j \in DOMAIN clog : i # j => Apart(i, j)

(***************************************************************************)
(* The enrichment budget of a run (tasks.py, phase 3)                      *)
(***************************************************************************)
\* the paid crawl enrichments the run has made so far
PaidCalls == Cardinality({i \in DOMAIN p3 : p3[i].paid})

\* the enrichments the run has made for free (feed content, transcripts)
FreeCalls == Cardinality({i \in DOMAIN p3 : p3[i].enrich /\ ~p3[i].paid})

\* what the budget test of the next item reads as already spent
firecrawl_calls == stats.enriched + stats.enrichment_failed - stats.free_enrichments

\* free enrichments that succeed leave the budget alone
SuccessfulFreeEnrichmentsAreFree ==
    stats.enrichment_failed = 0 => firecrawl_calls = PaidCalls

\* C14 as stated: free enrichments, failed ones included, do not consume the
\* run's enrichment budget: what the run counts as spent of the budget is the
\* number of paid crawl enrichments it made.
C14_FreeEnrichmentsCostNothing ==
    rpc \in {"score", "fallback", "done", "done_fallback"} => firecrawl_calls = PaidCalls

(***************************************************************************)
(* Rescoring after a publish date was filled in (tasks.py, phase 3)        *)
(***************************************************************************)
\* the candidates the present run built in phase 3, committed or not
BuiltRows == {c \in Range(session) \cup RowsOfRun(store, run) : c.path = "bulk"}

\* pending items that came without a date and whose candidate has one
Backfilled(i, c) ==
    /\ c.url_hash = pending[i].hash_val
    /\ c.status = "new"
    /\ pending[i].item.published_date = NoDate
    /\ c.published_date # NoDate

\* the three-term sum over the stored sub-scores
ThreeTermBase(c) ==
    RoundDiv(c.keyword_score * 50 + c.recency_score * 30 + c.source_weight * 2000, 100)

\* C15: a candidate whose publish date was filled in after enrichment has a
\* relevance of round(base * multiplier, 2), base being the three-term sum
\* of its stored sub-scores and multiplier that of its triage verdict,
\* applied once.
C15_MultiplierAppliedOnce ==
    \A i \in DOMAIN pending : \A c \in BuiltRows :
        Backfilled(i, c) =>
            c.relevance_score =
                RoundDiv(ThreeTermBase(c) * TRIAGE_MULTIPLIERS(Verdict(i).verdict), 100)

\* a relevant_news item without a date was enriched, given a date, and its
\* committed relevance differs from the twice multiplied value
C15_Witness ==
    /\ rpc = "done"
    /\ \E i \in DOMAIN pending : \E c \in RowsOfRun(store, run) :
          /\ c.path = "bulk"
          /\ Backfilled(i, c)
          /\ Verdict(i).verdict = "relevant_news"
          /\ Has(c.extra_metadata, "enriched_at")
          /\ c.relevance_score # RoundDiv(c.relevance_score * 115, 100)
          /\ c.relevance_score = RoundDiv(ThreeTermBase(c) * 115, 100)

(***************************************************************************)
(* The ranges of the stored scores, in hundredths                          *)
(***************************************************************************)
SubScoresInRange(c) ==
    /\ c.keyword_score \in 0..10000
    /\ c.recency_score \in 0..10000
    /\ c.source_weight \in 0..100

\* the sub-scores of every stored candidate are within their ranges, and
\* its relevance is at most 1.15 times 100
SubScoresWithinBounds ==
    \A c \in store : SubScoresInRange(c) /\ c.relevance_score \in 0..11500

\* C16 as stated: every stored candidate has keyword, recency and relevance
\* scores within [0,100] and a source weight within [0,1], the relevance
\* score after the triage multiplier included.
C16_ScoresWithinBounds ==
    \A c \in store : SubScoresInRange(c) /\ c.relevance_score \in 0..10000

(***************************************************************************)
(* SpecScore: calls of score_candidate (research/scoring.py).  A text is   *)
(* given by the number of configured unique terms and the number of them   *)
(* it contains, a publish date by its age in days.                         *)
(***************************************************************************)
MaxTerms == 3

ScoreDates == {NoDate, 0, 1, 3, 5, 10, 20, 40}
ScoreSourceTypes ==
    {"RSS Feed", "News Site", "Keyword Search", "YouTube Keywords", "Competitor",
     "Data", "House Content", "Podcast"}

InitScore ==
    /\ sc_args = NoRes
    /\ sc_ret = NoRes
    /\ NormIdle
    /\ EnrichIdle
    /\ TriageIdle
    /\ ScrapeIdle
    /\ RunIdle
    /\ CrawlIdle
    /\ SchedIdle
    /\ ConfigIdle
    /\ AnglesIdle
    /\ BackfillIdle
    /\ FcIdle
    /\ RetryIdle
    /\ ApiIdle
    /\ ProbeIdle

ScoreCandidate ==
    \E terms \in 0..MaxTerms, matches \in 0..MaxTerms, d \in ScoreDates,
       source_type \in ScoreSourceTypes :
        /\ matches <= terms
        /\ sc_args' = [matches |-> matches, terms |-> terms, published_date |-> d,
                       source_type |-> source_type]
        /\ sc_ret' = score_candidate(matches, terms, d, source_type)
        /\ UNCHANGED notScoreVars

NextScore == ScoreCandidate

SpecScore == InitScore /\ [][NextScore]_vars

\* the weighted sum of the returned (rounded) sub-scores, rounded again
Recomputed(ret, dated) ==
    IF dated
    THEN RoundDiv(ret.keyword_score * 50 + ret.recency_score * 30
                  + ret.source_weight * 2000, 100)
    ELSE RoundDiv(ret.keyword_score * 714 + ret.source_weight * 28600, 1000)

\* twice the distance, in units of 1/(1000 * den) hundredths, between the
\* returned relevance and the weighted sum of the unrounded scores
TwiceOff(a, ret) ==
    LET den == IF a.terms = 0 THEN 1 ELSE a.terms
        kwn == IF a.terms = 0 THEN 5000 ELSE a.matches * 10000
        sum == IF a.published_date # NoDate
               THEN 500 * kwn + (300 * ret.recency_score + 20000 * ret.source_weight) * den
               ELSE 714 * kwn + 28600 * ret.source_weight * den
        got == ret.relevance_score * 1000 * den
    IN  IF got >= sum THEN 2 * (got - sum) ELSE 2 * (sum - got)

\* the returned relevance is the weighted sum (three terms with a date, two
\* without), to the nearest hundredth
RelevanceIsWeightedSum ==
    sc_ret # NoRes =>
        TwiceOff(sc_args, sc_ret) <= 1000 * (IF sc_args.terms = 0 THEN 1 ELSE sc_args.terms)

\* C17 as stated: the returned relevance is the weighted sum rounded to 2
\* decimals, and the weighted sum recomputed from the returned sub-scores
\* is the same value.
C17_RelevanceRecomputable ==
    sc_ret # NoRes =>
        /\ TwiceOff(sc_args, sc_ret) <= 1000 * (IF sc_args.terms = 0 THEN 1 ELSE sc_args.terms)
        /\ sc_ret.relevance_score = Recomputed(sc_ret, sc_args.published_date # NoDate)

(***************************************************************************)
(* Competitor sources in a run (scrapers.py, SCRAPER_REGISTRY; tasks.py,   *)
(* phase 1)                                                                *)
(***************************************************************************)
\* the sources of the given type the present run has gone past
Passed(type) ==
    {k \in DOMAIN world.sources :
        k < srcIdx /\ world.sources[k].source_type = type}

\* every item the scraper of source k yields was taken up by phase 1
Discovered(k) ==
    \A n \in DOMAIN world.sources[k].result.items :
        \E j \in ThisRunDisc :
            /\ disc[j].source = world.sources[k].id
            /\ disc[j].url = world.sources[k].result.items[n].url

\* the run takes up the items of the site sources it passes
SiteSourcesScraped ==
    rpc \in {"scan", "score", "done"} =>
        \A k \in Passed("News Site") : Discovered(k)

\* the run never takes up an item of a competitor source
CompetitorSourcesSkipped ==
    \A j \in DOMAIN disc : \A k \in DOMAIN world.sources :
        disc[j].source = world.sources[k].id =>
            world.sources[k].source_type # "Competitor"

\* C18 as stated: the run scrapes an active competitor source as it does a
\* site source, so the items its scraper yields, which carry the
\* is_competitor flag, are taken up by phase 1.
C18_CompetitorSourcesScraped ==
    rpc \in {"scan", "score", "done"} =>
        \A k \in Passed("Competitor") : Discovered(k)

(***************************************************************************)
(* SpecProbe: calls of DataScraper._discover_via_pattern                   *)
(* (research/scrapers.py).  The URL of a month is the pattern with {MMYY}  *)
(* replaced; a HEAD request answers with a status and a Content-Type, or   *)
(* raises a RequestException.                                              *)
(***************************************************************************)
MaxLookback == 3

\* a pattern whose URLs end in ".pdf", and one whose URLs do not
UrlPatterns == {"https://x/{MMYY}.pdf", "https://x/report?m={MMYY}"}
EndsWithPdf(pattern) == pattern = "https://x/{MMYY}.pdf"

HeadOutcomes ==
    [raised : {FALSE}, status : {200, 404},
     content_type : {"application/pdf", "text/html"}]
    \cup {[raised |-> TRUE, status |-> 0, content_type |-> ""]}

\* 'pdf' in content_type.lower()
ReportsPdf(head) == head.content_type = "application/pdf"

\* lines 574-579: the probe of one month puts its URL on the list
ProbeFinds(pattern, head) ==
    /\ ~head.raised
    /\ head.status = 200
    /\ ReportsPdf(head) \/ EndsWithPdf(pattern)

\* _discover_via_pattern: months_back in range(lookback), one HEAD request
\* each; the months probed and the months whose URL is returned
discover_via_pattern(pattern, lookback, heads) ==
    LET months == [m \in 1..lookback |-> m - 1]
    IN  [probed |-> months,
         urls |-> SelectSeq(months, LAMBDA m : ProbeFinds(pattern, heads[m + 1]))]

InitProbe ==
    /\ dp_args = NoRes
    /\ dp_ret = NoRes
    /\ NormIdle
    /\ EnrichIdle
    /\ TriageIdle
    /\ ScrapeIdle
    /\ RunIdle
    /\ CrawlIdle
    /\ SchedIdle
    /\ ConfigIdle
    /\ AnglesIdle
    /\ BackfillIdle
    /\ FcIdle
    /\ RetryIdle
    /\ ApiIdle
    /\ ScoreIdle

DiscoverReports ==
    \E pattern \in UrlPatterns, lookback \in 0..MaxLookback :
      \E heads \in [1..lookback -> HeadOutcomes] :
        /\ dp_args' = [url_pattern |-> pattern, lookback_months |-> lookback,
                       heads |-> heads]
        /\ dp_ret' = discover_via_pattern(pattern, lookback, heads)
        /\ UNCHANGED notProbeVars

NextProbe == DiscoverReports

SpecProbe == InitProbe /\ [][NextProbe]_vars

\* the answer to the probe of the month of a returned URL
HeadOf(m) == dp_args.heads[m + 1]

\* a lookback of N months makes N probes, one per month, and a URL is
\* returned only after a 200 answer that reports a PDF or for a URL that
\* ends in ".pdf"
ProbesEveryMonthOnce ==
    dp_ret # NoRes =>
        /\ Len(dp_ret.probed) = dp_args.lookback_months
        /\ \A i \in DOMAIN dp_ret.urls :
              /\ HeadOf(dp_ret.urls[i]).status = 200
              /\ \/ ReportsPdf(HeadOf(dp_ret.urls[i]))
                 \/ EndsWithPdf(dp_args.url_pattern)

\* C19 as stated: in url_pattern mode a lookback of N months makes exactly N
\* existence checks, and a probed URL is returned for download and analysis
\* only if the answer to its probe reports a PDF content type.
C19_OnlyPdfAnswersPassOn ==
    dp_ret # NoRes =>
        /\ Len(dp_ret.probed) = dp_args.lookback_months
        /\ \A i \in DOMAIN dp_ret.urls : ReportsPdf(HeadOf(dp_ret.urls[i]))

(***************************************************************************)
(* SpecApi: the status-update endpoints (api/routes.py),                   *)
(* update_candidate_status and bulk_update_candidate_status.  Candidate i  *)
(* belongs to publication i; a request comes with the global key or with   *)
(* the key of publication 1.                                               *)
(***************************************************************************)
NumCandidates == 2
MaxUpdates == 2

CandidateIds == 1..NumCandidates
\* the ids a request may name: none (0), a candidate, an id of no candidate
RequestIds == 0..(NumCandidates + 1)
\* the statuses a request may name: none, those of the enum, one outside it
RequestStatuses == {None, "new", "selected", "rejected", "processed", "archived"}
ApiKeys == {"global", "publication_1"}
NEWS_CONTENT_ID == 456

\* mutant: any status of the enum is taken
IsSettableOrNew(status) == status \in {"new", "selected", "rejected", "processed"}

\* new_status in ('selected', 'rejected', 'processed')
IsSettable(status) == status \in {"selected", "rejected", "processed"}

\* validate_publication_access
PublicationAccess(key, cid) == key = "global" \/ cid = 1

\* an entry of "updates"; news_content_id comes with processed, if at all
Update(cid, status, ncid) == [id |-> cid, status |-> status, news_content_id |-> ncid]
UpdateEntries ==
    {Update(cid, status, 0) : cid \in RequestIds, status \in RequestStatuses}
    \cup {Update(cid, "processed", NEWS_CONTENT_ID) : cid \in CandidateIds}
UpdateLists == UNION {[1..n -> UpdateEntries] : n \in 0..MaxUpdates}

\* candidate.status = new_status, and news_content_id if the entry has one
SetStatus(table, update) ==
    [table EXCEPT ![update.id] =
        [status |-> update.status,
         news_content_id |-> IF update.news_content_id # 0
                             THEN update.news_content_id ELSE @.news_content_id]]

\* what the bulk loop makes of one entry: "" when it applies it
EntryError(table, key, update) ==
    IF update.id = 0 \/ update.status = None THEN "Missing id or status"
    ELSE IF ~IsSettable(update.status) THEN "Invalid status"
    ELSE IF update.id \notin DOMAIN table THEN "Candidate not found"
    ELSE IF ~PublicationAccess(key, update.id) THEN "Access denied"
    ELSE ""

RECURSIVE BulkLoop(_, _, _, _)
\* for idx, update in enumerate(updates): the session's view of the table,
\* the ids updated and the errors, after the entries from idx on
BulkLoop(updates, idx, key, acc) ==
    IF idx > Len(updates) THEN acc
    ELSE LET err == EntryError(acc.table, key, updates[idx])
         IN  BulkLoop(updates, idx + 1, key,
                IF err # ""
                THEN [acc EXCEPT !.errors = Append(@, [index |-> idx - 1, error |-> err])]
                ELSE [acc EXCEPT !.table = SetStatus(@, updates[idx]),
                                 !.results = Append(@, updates[idx].id)])

Response(code, updated, errors) == [code |-> code, updated |-> updated, errors |-> errors]

InitApi ==
    /\ cands \in [CandidateIds -> [status : {"new", "selected"}, news_content_id : {0}]]
    /\ api_call = NoRes
    /\ api_ret = NoRes
    /\ api_calls = 0
    /\ NormIdle
    /\ EnrichIdle
    /\ TriageIdle
    /\ ScrapeIdle
    /\ RunIdle
    /\ CrawlIdle
    /\ SchedIdle
    /\ ConfigIdle
    /\ AnglesIdle
    /\ BackfillIdle
    /\ FcIdle
    /\ RetryIdle
    /\ ScoreIdle
    /\ ProbeIdle

\* POST /candidates/<id>/status
update_candidate_status ==
    /\ api_calls = 0
    /\ \E key \in ApiKeys, cid \in RequestIds \ {0}, status \in RequestStatuses,
          ncid \in {0, NEWS_CONTENT_ID}, commit_ok \in BOOLEAN :
        LET update == Update(cid, status, ncid)
        IN  /\ api_call' = [kind |-> "single", key |-> key, updates |-> <<update>>]
            /\ IF cid \notin DOMAIN cands
               THEN /\ api_ret' = Response(404, 0, <<>>)
                    /\ UNCHANGED cands
               ELSE IF ~PublicationAccess(key, cid)
               THEN /\ api_ret' = Response(403, 0, <<>>)
                    /\ UNCHANGED cands
               ELSE IF ~IsSettable(status)
               THEN /\ api_ret' = Response(400, 0, <<>>)
                    /\ UNCHANGED cands
               ELSE IF ~commit_ok
               THEN /\ api_ret' = Response(500, 0, <<>>)
                    /\ UNCHANGED cands
               ELSE /\ api_ret' = Response(200, 1, <<>>)
                    /\ cands' = SetStatus(cands, update)
    /\ api_calls' = api_calls + 1
    /\ UNCHANGED notApiVars

\* POST /candidates/bulk-status
bulk_update_candidate_status ==
    /\ api_calls = 0
    /\ \E key \in ApiKeys, updates \in UpdateLists, commit_ok \in BOOLEAN :
        LET r == BulkLoop(updates, 1, key,
                          [table |-> cands, results |-> <<>>, errors |-> <<>>])
        IN  /\ api_call' = [kind |-> "bulk", key |-> key, updates |-> updates]
            /\ IF updates = <<>>
               THEN /\ api_ret' = Response(400, 0, <<>>)
                    /\ UNCHANGED cands
               ELSE IF ~commit_ok
               THEN /\ api_ret' = Response(500, 0, <<>>)
                    /\ UNCHANGED cands
               ELSE /\ api_ret' = Response(200, Len(r.results), r.errors)
                    /\ cands' = r.table
    /\ api_calls' = api_calls + 1
    /\ UNCHANGED notApiVars

NextApi ==
    \/ update_candidate_status
    \/ bulk_update_candidate_status

SpecApi == InitApi /\ [][NextApi]_vars

\* the entries of the request that name a status outside the three or a
\* candidate that does not exist
Refused(update) ==
    \/ update.status \notin {"selected", "rejected", "processed"}
    \/ update.id \notin CandidateIds

\* the entries the request is allowed to make: a status of the three, an
\* existing candidate, of a publication the key gives access to
Allowed(call, n) ==
    /\ ~Refused(call.updates[n])
    /\ call.key = "global" \/ call.updates[n].id = 1

\* the last allowed entry for candidate i, or 0
LastAllowed(call, i) ==
    LET ns == {n \in DOMAIN call.updates : Allowed(call, n) /\ call.updates[n].id = i}
    IN  IF ns = {} THEN 0 ELSE CHOOSE n \in ns : \A k \in ns : k <= n

\* C20: a status-update call sets a status only to selected, rejected or
\* processed.  An entry with any other status or with the id of no
\* candidate is reported as an error (a 400 or 404 answer of the single
\* call, an entry of "errors" with its index in a bulk call) and changes no
\* candidate, and in a bulk call whose commit succeeds every other entry
\* the key is allowed to make is applied, the last one per candidate
\* deciding; a call that is not answered 200 changes nothing.
C20_OnlyValidUpdatesApplied ==
    [][ api_calls' = api_calls + 1 =>
          LET call == api_call'
              ret == api_ret'
          IN  /\ \A i \in CandidateIds :
                    cands'[i].status # cands[i].status =>
                        cands'[i].status \in {"selected", "rejected", "processed"}
              /\ \A n \in DOMAIN call.updates :
                    Refused(call.updates[n]) =>
                        IF call.kind = "single" THEN ret.code \in {400, 403, 404}
                        ELSE ret.code = 200 =>
                                \E e \in DOMAIN ret.errors : ret.errors[e].index = n - 1
              /\ \A i \in CandidateIds :
                    IF ret.code = 200 /\ LastAllowed(call, i) # 0
                    THEN cands'[i].status = call.updates[LastAllowed(call, i)].status
                    ELSE cands'[i] = cands[i]
      ]_vars

\* a bulk call of a refused entry (status new) for a candidate that stays
\* as it was and an allowed entry for another that is applied
C20_Witness ==
    /\ api_calls = 1
    /\ api_call.kind = "bulk"
    /\ api_ret.code = 200
    /\ api_ret.updated = 1
    /\ Len(api_ret.errors) = 1
    /\ api_call.updates[1] = Update(1, "new", 0)
    /\ api_call.updates[2] = Update(2, "processed", NEWS_CONTENT_ID)
    /\ cands[1].status = "selected"
    /\ cands[2].status = "processed"

(***************************************************************************)
(* Overlapping executions for one publication (tasks.py, lines 595-655).   *)
(* The other execution is the writer of ForeignCommit: it commits its      *)
(* candidate for a URL this run holds pending while this run is in phase 3 *)
(* or in its one-by-one pass.                                              *)
(***************************************************************************)
\* the stored candidates with the hash of pending item i
StoredFor(i) == {c \in store : c.url_hash = pending[i].hash_val}

\* nothing but the other execution disturbed this run
OnlyOverlap ==
    /\ faults.item = 0 /\ faults.db = 0 /\ faults.flush = 0
    /\ \A k \in DOMAIN p3 : p3[k].what # "raised"

\* C21: when this run ends next to another execution that committed a
\* candidate for a URL both discovered, and nothing else failed, the table
\* holds exactly one candidate for the hash of every item that survived
\* phase 1, the shared URL included; no hash has two candidates at any time.
C21_OverlapKeepsOneEach ==
    /\ \A c, d \in store : c.url_hash = d.url_hash => c = d
    /\ (rpc \in {"done", "done_fallback"} /\ OnlyOverlap) =>
          \A i \in DOMAIN pending : Cardinality(StoredFor(i)) = 1

\* the other execution committed the shared URL first; this run's batch
\* commit failed, its one-by-one pass skipped that URL and stored another
C21_Witness ==
    /\ rpc = "done_fallback"
    /\ OnlyOverlap
    /\ foreign.commits = 1
    /\ \E i, j \in DOMAIN pending :
          /\ \E c \in StoredFor(i) : c.path = "foreign"
          /\ \E c \in StoredFor(j) : c.path = "fallback" /\ c.run = run

(***************************************************************************)
(* The one-by-one pass and its rollback (tasks.py, lines 606-655)          *)
(***************************************************************************)
\* a step of the one-by-one pass that does not abandon the run
FallbackStep == rpc = "fallback" /\ rpc' \in {"fallback", "done_fallback"}

\* the candidates flushed so far are flushed or committed after the step
FlushedKept == \A c \in Rows(session) : c \in Rows(session') \cup store'

\* an iteration whose flush succeeds keeps what was flushed before it, and
\* the final commit stores it
FlushedKeptWithoutFailure ==
    [][ (FallbackStep /\ faults'.flush = faults.flush) => FlushedKept ]_vars

\* C22 as stated: a failure while persisting one candidate of the
\* one-by-one pass discards only that candidate; the candidates flushed
\* earlier in the pass stay and are in the table when the run ends.
C22_FallbackFailureDiscardsOne ==
    [][ FallbackStep => FlushedKept ]_vars

\* ---------------------------------------------------------------------------
\* The research task under the scheduler's retry rule (tasks.py 300-312,
\* 595-659).  The body of one execution is reduced to the outcomes of its two
\* commits; what is kept is the retry counter of the request.
\* ---------------------------------------------------------------------------
NumPublications == 2
MaxExecutions == 4
Publications == 1..NumPublications

Queued == [pc |-> "queued", retries |-> 0, execs |-> 0]

InitRetry ==
    /\ rtasks = [p \in Publications |-> Queued]
    /\ NormIdle /\ EnrichIdle /\ TriageIdle /\ ScrapeIdle /\ RunIdle
    /\ CrawlIdle /\ ScoreIdle /\ ProbeIdle /\ ApiIdle
    /\ FcIdle
    /\ BackfillIdle
    /\ AnglesIdle
    /\ ConfigIdle
    /\ SchedIdle

\* a worker picks the request up: first execution, or the execution of a retry
Execute(p) ==
    /\ rtasks[p].pc \in {"queued", "retry"}
    /\ rtasks[p].execs < MaxExecutions
    /\ rtasks' = [rtasks EXCEPT ![p] =
                     [pc |-> "running",
                      retries |-> IF @.pc = "retry" THEN @.retries + 1 ELSE 0,
                      execs |-> @.execs + 1]]
    /\ UNCHANGED notRetryVars

\* flush and commit of the whole batch succeed
BatchCommitOk(p) ==
    /\ rtasks[p].pc = "running"
    /\ rtasks' = [rtasks EXCEPT ![p].pc = "done"]
    /\ UNCHANGED notRetryVars

\* the batch commit raises: rollback, then the one-at-a-time pass
BatchCommitRaises(p) ==
    /\ rtasks[p].pc = "running"
    /\ rtasks' = [rtasks EXCEPT ![p].pc = "fallback"]
    /\ UNCHANGED notRetryVars

\* the commit that ends the one-at-a-time pass succeeds
FinalCommitOk(p) ==
    /\ rtasks[p].pc = "fallback"
    /\ rtasks' = [rtasks EXCEPT ![p].pc = "done"]
    /\ UNCHANGED notRetryVars

\* the commit that ends the one-at-a-time pass raises: raise self.retry(exc=e2)
FinalCommitRaises(p) ==
    /\ rtasks[p].pc = "fallback"
    /\ rtasks' = [rtasks EXCEPT ![p].pc = SelfRetry(rtasks[p].retries)]
    /\ UNCHANGED notRetryVars

NextRetry ==
    \E p \in Publications :
        \/ Execute(p)
        \/ BatchCommitOk(p)
        \/ BatchCommitRaises(p)
        \/ FinalCommitOk(p)
        \/ FinalCommitRaises(p)

SpecRetry == InitRetry /\ [][NextRetry]_vars

FinalCommitFailed(p) ==
    rtasks[p].pc = "fallback" /\ rtasks'[p].pc \notin {"fallback", "done"}

\* C23: a failing final commit of the one-at-a-time pass hands the task to the
\* retry rule: after the original execution or the first retry the task is
\* queued for another execution, after the second retry the failure is
\* surfaced; no task is executed more than three times
C23_BoundedRetries ==
    /\ [](\A p \in Publications :
            /\ rtasks[p].execs <= MAX_RETRIES + 1
            /\ rtasks[p].pc = "failed" => rtasks[p].execs = MAX_RETRIES + 1)
    /\ [][\A p \in Publications :
            FinalCommitFailed(p) =>
                /\ rtasks[p].execs < MAX_RETRIES + 1 => rtasks'[p].pc = "retry"
                /\ rtasks[p].execs = MAX_RETRIES + 1 => rtasks'[p].pc = "failed"]_vars

C23_Witness ==
    \E p, q \in Publications :
        /\ rtasks[p].pc = "failed" /\ rtasks[p].execs = 3
        /\ rtasks[q].pc = "done" /\ rtasks[q].execs = 2

\* ---------------------------------------------------------------------------
\* The exchange of one triage batch (triage.py 123-205)
\* ---------------------------------------------------------------------------
\* _triage_batch is sequential code and every request of the client returns
\* or raises, so a step that is possible is eventually taken
SpecTriageLive == SpecTriage /\ WF_vars(NextTriage)

BatchDone == Len(tblog') = Len(tblog) + 1
EndedAs(how) == BatchDone /\ tblog'[Len(tblog')] = how
AtForcedCall == tpc = "loop" /\ tturn = tbudget + 2

AllMaybe(rs) == \A k \in DOMAIN rs : rs[k].verdict = "maybe"
NewResults == SubSeq(tresults', Len(tresults) + 1, Len(tresults'))

\* C26: a rate limit is answered from anywhere in the exchange of a batch and
\* leads to the retry; the retry is a single request whose answer is parsed
\* against the whole batch; a retry that raises (a second rate limit
\* included) ends the batch with 'maybe' for every item of it, and in either
\* case the batch is over: there is no second retry
C26_OneRetryThenFallback ==
    /\ [][ tpc' = "retry" =>
              /\ tpc = "loop"
              /\ tresults' = tresults /\ tblog' = tblog /\ tstart' = tstart ]_vars
    /\ [][ tpc = "retry" =>
              /\ tpc' # "retry"
              /\ BatchDone
              /\ tblog'[Len(tblog')] \in {"retry_answer", "retry_failure"}
              /\ Len(NewResults) = Len(CurrentBatch)
              /\ \A k \in DOMAIN NewResults : NewResults[k].url = CurrentBatch[k]
              /\ EndedAs("retry_failure") => AllMaybe(NewResults) ]_vars

\* C26 witness: the first batch was rate limited, its retry raised, both its
\* items are 'maybe' and the second batch is under way
C26_Witness ==
    /\ Len(tblog) = 1 /\ tblog[1] = "retry_failure"
    /\ tpc = "loop" /\ tstart = 1 + TRIAGE_MAX_BATCH_SIZE
    /\ Len(tresults) = TRIAGE_MAX_BATCH_SIZE /\ AllMaybe(tresults)
    /\ \A k \in DOMAIN tcause : tcause[k] = "call_failure"

\* ---------------------------------------------------------------------------
\* One call of _firecrawl_scrape (enrichment.py 265-302), attempt by attempt.
\* The limiter it passes before each attempt is the one of SpecCrawl.
\* ---------------------------------------------------------------------------
DEFAULT_RETRY_DELAY == 10

\* the Retry-After header of a 429 answer: absent, delay-seconds or HTTP-date
RetryAfterHeaders ==
    {[form |-> "absent", secs |-> 0], [form |-> "seconds", secs |-> 3],
     [form |-> "http_date", secs |-> 0]}
NoHeader == [form |-> "absent", secs |-> 0]

\* what one requests.post of the call meets.  mentions429: the text of the
\* exception (reason phrase, repr of the failed connection) holds "429"
Outcomes ==
    {[kind |-> "ok", header |-> NoHeader, mentions429 |-> FALSE]}
    \cup {[kind |-> "status429", header |-> h, mentions429 |-> TRUE] :
             h \in RetryAfterHeaders}
    \cup {[kind |-> k, header |-> NoHeader, mentions429 |-> b] :
             k \in {"http_error", "connection_error"}, b \in BOOLEAN}
    \cup {[kind |-> k, header |-> NoHeader, mentions429 |-> FALSE] :
             k \in {"invalid_json", "json_not_object"}}

\* int(resp.headers.get('Retry-After', 10)): None when int() raises
RetryAfter(header) ==
    CASE header.form = "absent" -> DEFAULT_RETRY_DELAY
      [] header.form = "seconds" -> header.secs
      [] OTHER -> NoDate

\* except requests.RequestException as e: attempt == 0 and '429' in str(e)
RetriesOnError(attempt_no, out) == attempt_no = 0 /\ out.mentions429

\* the body of one iteration of `for attempt in range(2)` after the post:
\* what the call does next.  resp.json() of a body that is not JSON raises
\* an exception that is a RequestException or a plain ValueError, depending
\* on the version of the HTTP library
AttemptResults(attempt_no, out) ==
    CASE out.kind = "ok" -> {[then |-> "return", value |-> "data", delay |-> 0]}
      [] out.kind = "status429" /\ attempt_no = 0 ->
           IF RetryAfter(out.header) = NoDate
           THEN {[then |-> "raise", value |-> "ValueError", delay |-> 0]}
           ELSE {[then |-> "sleep", value |-> "none",
                  delay |-> RetryAfter(out.header)]}
      [] out.kind = "json_not_object" ->
           {[then |-> "raise", value |-> "AttributeError", delay |-> 0]}
      [] out.kind = "invalid_json" ->
           {[then |-> "return", value |-> "None", delay |-> 0],
            [then |-> "raise", value |-> "ValueError", delay |-> 0]}
      [] OTHER ->
           IF RetriesOnError(attempt_no, out)
           THEN {[then |-> "sleep", value |-> "none",
                  delay |-> DEFAULT_RETRY_DELAY]}
           ELSE {[then |-> "return", value |-> "None", delay |-> 0]}

InitFirecrawl ==
    /\ \E kind \in LimitedKinds :
          fcall = [pc |-> "limit", kind |-> kind, attempt |-> 0, passes |-> 0,
                   outs |-> <<>>, slept |-> <<>>, ret |-> "none"]
    /\ NormIdle /\ EnrichIdle /\ TriageIdle /\ ScrapeIdle /\ RunIdle
    /\ CrawlIdle /\ ScoreIdle /\ ProbeIdle /\ ApiIdle /\ RetryIdle
    /\ BackfillIdle
    /\ AnglesIdle
    /\ ConfigIdle
    /\ SchedIdle

\* _firecrawl_rate_limit() at the head of the iteration
FcRateLimit ==
    /\ fcall.pc = "limit"
    /\ fcall' = [fcall EXCEPT !.pc = "post", !.passes = @ + 1]
    /\ UNCHANGED notFcVars

\* requests.post and the handling of what it gave
FcPost ==
    /\ fcall.pc = "post"
    /\ \E out \in Outcomes : \E r \in AttemptResults(fcall.attempt, out) :
         fcall' = [fcall EXCEPT !.outs = Append(@, out),
                                !.pc = IF r.then = "sleep" THEN "sleep" ELSE "over",
                                !.slept = IF r.then = "sleep"
                                          THEN Append(@, r.delay) ELSE @,
                                !.ret = IF r.then = "raise" THEN "raised"
                                        ELSE r.value]
    /\ UNCHANGED notFcVars

\* time.sleep(...) is over: `continue` (only attempt 0 ever sleeps)
FcContinue ==
    /\ fcall.pc = "sleep"
    /\ fcall' = [fcall EXCEPT !.pc = "limit", !.attempt = @ + 1]
    /\ UNCHANGED notFcVars

NextFirecrawl ==
    \/ FcRateLimit
    \/ FcPost
    \/ FcContinue

SpecFirecrawl == InitFirecrawl /\ [][NextFirecrawl]_vars

Attempts == Len(fcall.outs)
LastOut == fcall.outs[Attempts]
RequestFailure(out) == out.kind \in {"status429", "http_error", "connection_error"}

\* what the code does keep: at most two posts, each after a pass through the
\* limiter, a second post only after a sleep, and no exception out of a
\* request that failed with a status or in the connection
ScrapeCallAttempts ==
    /\ Attempts <= 2
    /\ fcall.passes = IF fcall.pc = "post" THEN Attempts + 1 ELSE Attempts
    /\ Attempts = 2 =>
          /\ Len(fcall.slept) = 1
          /\ \/ fcall.outs[1].kind = "status429"
             \/ fcall.outs[1].mentions429 /\ fcall.slept[1] = DEFAULT_RETRY_DELAY
    /\ (fcall.ret = "raised" /\ RequestFailure(LastOut)) =>
          Attempts = 1 /\ LastOut.header.form = "http_date"

\* C27: a call posts at most twice, passes the limiter before each post,
\* posts a second time only when the first post was answered 429, after
\* sleeping the Retry-After delay or the default, and a second 429 or another
\* failed request gives None, not an exception
C27_SecondAttemptOnlyAfter429 ==
    /\ Attempts <= 2
    /\ fcall.passes = IF fcall.pc = "post" THEN Attempts + 1 ELSE Attempts
    /\ Attempts = 2 =>
          /\ fcall.outs[1].kind = "status429"
          /\ fcall.slept = <<RetryAfter(fcall.outs[1].header)>>
    /\ (fcall.pc = "over" /\ Attempts = 2 /\ RequestFailure(LastOut)) =>
          fcall.ret = "None"
    /\ (fcall.pc = "over" /\ Attempts = 1
          /\ LastOut.kind \in {"http_error", "connection_error"}) =>
          fcall.ret = "None"

\* ---------------------------------------------------------------------------
\* The excluded-domain filter of phase 1 (tasks.py 320-336, 396-401)
\* ---------------------------------------------------------------------------
SourceOf(id) == CHOOSE k \in DOMAIN world.sources : world.sources[k].id = id
TypeOf(id) == world.sources[SourceOf(id)].source_type
HostOf(u) == Lower(u.netloc)

CuratedDomains ==
    {Lower(world.sources[k].url.netloc) :
        k \in {j \in DOMAIN world.sources :
                 /\ world.sources[j].source_type \in {"Competitor", "House Content"}
                 /\ world.sources[j].url # NoRes}}
OwnDomain ==
    IF world.publication_domain = "" THEN {}
    ELSE {Lower(world.publication_domain)}
BothForms(domains) == domains \cup {WwwToggle(d) : d \in domains}

\* an item that reached the filter: it was not dropped before as a duplicate
\* and its URL could be hashed
ReachedFilter(j) == disc[j].disp \notin {"error", "seen", "stored", "content"}

\* what the code does keep: a search item whose host is the publication's
\* domain as configured, or a curated source's domain in either form, is
\* dropped by the filter and is not pending; no other item is dropped by it
SearchItemsOnListedDomainsSkipped ==
    /\ \A j \in DOMAIN disc :
          ReachedFilter(j) =>
             (disc[j].disp = "excluded_domain" <=>
                /\ TypeOf(disc[j].source) = "Keyword Search"
                /\ HostOf(disc[j].url) \in OwnDomain \cup BothForms(CuratedDomains))
    /\ \A i \in DOMAIN pending :
          pending[i].source.source_type = "Keyword Search" =>
             HostOf(pending[i].item.url) \notin OwnDomain \cup BothForms(CuratedDomains)

\* C28: a keyword-search item whose host is the publication's own domain or
\* the domain of a competitor or house-content source, with or without the
\* leading "www.", is dropped by the filter (unless it was dropped before as
\* a duplicate) and so is never pending for triage or persistence; an item of
\* another source type is never dropped by the filter
C28_ExcludedDomainsSkipped ==
    /\ \A j \in DOMAIN disc :
          /\ (/\ ReachedFilter(j)
              /\ TypeOf(disc[j].source) = "Keyword Search"
              /\ HostOf(disc[j].url) \in BothForms(OwnDomain \cup CuratedDomains))
                => disc[j].disp = "excluded_domain"
          /\ TypeOf(disc[j].source) # "Keyword Search"
                => disc[j].disp # "excluded_domain"
    /\ \A i \in DOMAIN pending :
          pending[i].source.source_type = "Keyword Search" =>
             HostOf(pending[i].item.url) \notin BothForms(OwnDomain \cup CuratedDomains)

\* ---------------------------------------------------------------------------
\* The order of the phases of a run (tasks.py 364-566)
\* ---------------------------------------------------------------------------
KeptByPhase1(d) == d.disp = "pending"
Kept == SelectSeq(disc, KeptByPhase1)
TriagedUrls == DOMAIN verdict_map
EnrichCalls == {k \in DOMAIN p3 : p3[k].enrich}

\* C29: the items handed to phases 2 and 3 are exactly the discoveries phase 1
\* kept, in order, so a discovery it skipped (seen in the run, stored,
\* published, excluded domain, too old) is neither triaged nor enriched; the
\* triage of a run is over before phase 3 handles its first item, and phase 1
\* is over before the triage
C29_PhaseOrder ==
    /\ [](/\ Len(pending) = Len(Kept)
          /\ \A i \in DOMAIN pending :
                /\ pending[i].item.url = Kept[i].url
                /\ pending[i].source.id = Kept[i].source
          /\ \A u \in TriagedUrls :
                \E i \in DOMAIN pending :
                   /\ pending[i].item.url = u
                   /\ pending[i].source.source_type \notin SKIP_TRIAGE_SOURCE_TYPES
          /\ Len(p3) <= Len(pending)
          /\ rpc \in {"scan", "dedup"} => p3 = <<>> /\ verdict_map = <<>>)
    /\ [][ verdict_map' # verdict_map =>
              \/ p3 = <<>> /\ rpc = "scan" /\ srcIdx > Len(world.sources)
              \/ verdict_map' = <<>> ]_vars
    /\ [][ (Len(p3') > Len(p3)) =>
              rpc = "score" /\ verdict_map' = verdict_map /\ disc' = disc ]_vars

\* C29 witness: a run that skipped a published story, a search hit on an
\* excluded domain and an old feed item has triaged what was left and has
\* called the enrichment engine
C29_Witness ==
    /\ rpc = "score"
    /\ \E j \in DOMAIN disc : disc[j].disp = "content"
    /\ \E j \in DOMAIN disc : disc[j].disp = "excluded_domain"
    /\ \E j \in DOMAIN disc : disc[j].disp = "too_old"
    /\ TriagedUrls # {}
    /\ EnrichCalls # {}

\* ---------------------------------------------------------------------------
\* Items of the source types that skip triage (tasks.py 430-458, 463-566)
\* ---------------------------------------------------------------------------
Exempt(i) == pending[i].source.source_type \in {"Data", "House Content"}

\* the score phase 3 gives an item without any verdict
Unmultiplied(i, c) ==
    IF pending[i].item.published_date = NoDate /\ c.published_date # NoDate
    THEN ThreeTermBase(c)
    ELSE score_candidate(pending[i].item.matches, world.terms,
                         pending[i].item.published_date,
                         pending[i].source.source_type).relevance_score

\* C30: a pending item of a Data or House Content source is not among the
\* items triaged: no verdict is recorded for its URL, it is counted in
\* triage_skipped, and the candidate phase 3 builds for it has status 'new',
\* no triage_verdict or triage_reasoning in its metadata and the relevance
\* the scorer gave, without a multiplier
C30_ExemptItemsSkipTriage ==
    /\ \A i \in DOMAIN pending :
          Exempt(i) =>
             /\ pending[i].item.url \notin DOMAIN verdict_map
             /\ \A c \in BuiltRows :
                   c.url_hash = pending[i].hash_val =>
                      /\ c.status = "new"
                      /\ ~Has(c.extra_metadata, "triage_verdict")
                      /\ ~Has(c.extra_metadata, "triage_reasoning")
                      /\ c.relevance_score = Unmultiplied(i, c)
    /\ rpc \in {"score", "done"} =>
          stats.triage_skipped = Cardinality({i \in DOMAIN pending : Exempt(i)})

\* C30 witness: a run has stored the candidate of a data report next to that
\* of a triaged item; a relevant_news verdict would have changed the report's
\* relevance
C30_Witness ==
    /\ rpc = "done"
    /\ verdict_map # <<>>
    /\ \E i \in DOMAIN pending : \E c \in store :
          /\ Exempt(i)
          /\ c.url_hash = pending[i].hash_val /\ c.path = "bulk" /\ c.run = run
          /\ c.status = "new"
          /\ ApplyMultiplier(c.relevance_score, "relevant_news") # c.relevance_score

\* ---------------------------------------------------------------------------
\* The date backfill and the rescoring of phase 3 for an item that came
\* without a date (tasks.py 494-506, 535-564), over the inputs of
\* score_candidate
\* ---------------------------------------------------------------------------
FoundDates == {NoDate, 0, 5}
BackfillVerdicts == {None, "relevant_news", "maybe"}

InitBackfill ==
    /\ bf_args = NoRes
    /\ bf_ret = NoRes
    /\ NormIdle /\ EnrichIdle /\ TriageIdle /\ ScrapeIdle /\ RunIdle
    /\ CrawlIdle /\ ScoreIdle /\ ProbeIdle /\ ApiIdle /\ RetryIdle /\ FcIdle
    /\ AnglesIdle
    /\ ConfigIdle
    /\ SchedIdle

Multiplied(rel, verdict) ==
    IF verdict # None THEN ApplyMultiplier(rel, verdict) ELSE rel

\* scoring, first multiplication, backfill and rescoring of one undated item
BackfillAndRescore ==
    \E terms \in 0..MaxTerms, matches \in 0..MaxTerms,
       source_type \in ScoreSourceTypes, verdict \in BackfillVerdicts,
       triage_date \in FoundDates, enrich_date \in FoundDates,
       url_date \in FoundDates :
        /\ bf_args = NoRes
        /\ matches <= terms
        /\ bf_args' = [matches |-> matches, terms |-> terms,
                       source_type |-> source_type, verdict |-> verdict,
                       triage_date |-> triage_date, enrich_date |-> enrich_date,
                       url_date |-> url_date]
        /\ LET scores == score_candidate(matches, terms, NoDate, source_type)
               rel1 == Multiplied(scores.relevance_score, verdict)
               published_date == BackfillDate(NoDate, triage_date, enrich_date,
                                              url_date)
           IN  bf_ret' = [published_date |-> published_date,
                          scores |-> Rescore(scores, rel1, NoDate,
                                             published_date, verdict)]
        /\ UNCHANGED notBfVars

NextBackfill == BackfillAndRescore

SpecBackfill == InitBackfill /\ [][NextBackfill]_vars

BackfillDone == bf_ret # NoRes
FirstFound ==
    IF bf_args.triage_date # NoDate THEN bf_args.triage_date
    ELSE IF bf_args.enrich_date # NoDate THEN bf_args.enrich_date
    ELSE bf_args.url_date
UndatedScores ==
    score_candidate(bf_args.matches, bf_args.terms, NoDate, bf_args.source_type)
DatedScores ==
    score_candidate(bf_args.matches, bf_args.terms, FirstFound,
                    bf_args.source_type)

\* what the code does keep: the date is the first found of the three; with
\* no date found the candidate has the no-date scores (relevance multiplied
\* once); with a date found the recency is that of the date and the
\* relevance is the three-term sum over the rounded sub-scores, multiplied
\* once
BackfillTakesFirstDate ==
    BackfillDone =>
       /\ bf_ret.published_date = FirstFound
       /\ bf_ret.scores.keyword_score = UndatedScores.keyword_score
       /\ bf_ret.scores.source_weight = UndatedScores.source_weight
       /\ FirstFound = NoDate =>
             /\ bf_ret.scores.recency_score = UndatedScores.recency_score
             /\ bf_ret.scores.relevance_score =
                   IF bf_args.verdict = "relevant_news"
                   THEN RoundDiv(UndatedScores.relevance_score * 115, 100)
                   ELSE UndatedScores.relevance_score
       /\ FirstFound # NoDate =>
             /\ bf_ret.scores.recency_score = DatedScores.recency_score
             /\ bf_ret.scores.relevance_score =
                   LET base == RoundDiv(bf_ret.scores.keyword_score * 50
                                        + bf_ret.scores.recency_score * 30
                                        + bf_ret.scores.source_weight * 2000, 100)
                   IN  IF bf_args.verdict = "relevant_news"
                       THEN RoundDiv(base * 115, 100) ELSE base

\* C31: for an item without a date the candidate's date is the first found of
\* the triage date, the enrichment date and the URL date; when one is found
\* the recency and the relevance are the ones score_candidate gives for that
\* date (the multiplier applied to the relevance), and when none is found
\* the date stays empty and the no-date scores are kept
C31_BackfillRescoresAsKnownDate ==
    BackfillDone =>
       /\ bf_ret.published_date = FirstFound
       /\ FirstFound = NoDate =>
             /\ bf_ret.scores.recency_score = UndatedScores.recency_score
             /\ bf_ret.scores.relevance_score =
                   Multiplied(UndatedScores.relevance_score, bf_args.verdict)
       /\ FirstFound # NoDate =>
             /\ bf_ret.scores.recency_score = DatedScores.recency_score
             /\ bf_ret.scores.relevance_score =
                   Multiplied(DatedScores.relevance_score, bf_args.verdict)

\* the rows the one-by-one path of this run persisted
FallbackRows == {c \in store : c.run = run /\ c.path = "fallback"}

\* what the candidate built by phase 3 for pending item i carries whatever
\* its enrichment did: the keyword score and source weight of its scores,
\* and, its date being known, the date, the recency and the relevance
KnownDateScores(i) ==
    LET pn == pending[i]
        scores == score_candidate(pn.item.matches, world.terms,
                                  pn.item.published_date, pn.source.source_type)
    IN  IF Verdict(i).verdict = None THEN scores
        ELSE [scores EXCEPT !.relevance_score =
                 RoundDiv(@ * TRIAGE_MULTIPLIERS(Verdict(i).verdict), 100)]

\* C34: a candidate persisted by the one-by-one path carries what the
\* candidate phase 3 built for the item carried: for an item that is not
\* rejected, its keyword score and source weight, its triage verdict in the
\* metadata, and, the item having a date, that date with the recency and
\* relevance scores computed from it
C34_FallbackRowsCarryTheSame ==
    \A i \in DOMAIN pending : \A c \in FallbackRows :
        (c.url_hash = pending[i].hash_val /\ c.status = "new") =>
            /\ c.keyword_score = KnownDateScores(i).keyword_score
            /\ c.source_weight = KnownDateScores(i).source_weight
            /\ Verdict(i).verdict # None =>
                  Get(c.extra_metadata, "triage_verdict", None) = Verdict(i).verdict
            /\ pending[i].item.published_date # NoDate =>
                  /\ c.published_date = pending[i].item.published_date
                  /\ c.recency_score = KnownDateScores(i).recency_score
                  /\ c.relevance_score = KnownDateScores(i).relevance_score

\* pending item i scored at or above the enrichment threshold and is of a
\* type that is enriched
WantsEnrichment(i) ==
    /\ KnownDateScores(i).relevance_score >= ENRICHMENT_MIN_SCORE
    /\ pending[i].source.source_type # "Data"

\* the items phase 3 scored and did not enrich though they wanted it
RefusedForBudget == {i \in DOMAIN p3 : p3[i].what = "scored" /\ ~p3[i].enrich
                                /\ WantsEnrichment(i)}
BelowThreshold == {i \in DOMAIN p3 : p3[i].what = "scored" /\ ~WantsEnrichment(i)}

\* C35: the paid crawl enrichments of a run never outnumber the enrichment
\* budget, and an item at or above the threshold that is refused is counted
\* as budget-exhausted and as skipped, never as failed or enriched
C35_PaidCallsWithinBudget ==
    /\ PaidCalls <= ENRICHMENT_MAX_PER_RUN
    /\ stats.enrichment_budget_exhausted = Cardinality(RefusedForBudget)
    /\ stats.enrichment_skipped = Cardinality(RefusedForBudget) + Cardinality(BelowThreshold)
    /\ stats.enriched + stats.enrichment_failed
          = Cardinality({i \in DOMAIN p3 : p3[i].enrich})

\* C35 witness: the budget is spent on paid enrichments and a later item at
\* or above the threshold was refused
C35_Witness ==
    /\ rpc = "done"
    /\ PaidCalls = ENRICHMENT_MAX_PER_RUN
    /\ \E i \in RefusedForBudget : \E k \in DOMAIN p3 : k < i /\ p3[k].paid

\* the fetches made in the batches that returned their count are the ones
\* triage_items has counted
CountedFetchesWithinBudget ==
    ttotal <= TRIAGE_FETCH_BUDGET

\* C36: the page fetches made in all the batches of one triage_items call
\* never outnumber the configured fetch budget, however the batches end
C36_FetchesWithinBudget ==
    tfetched <= TRIAGE_FETCH_BUDGET

RunEnded == rpc \in {"done", "done_fallback"}

\* every discovery is counted once in phase 1: dropped as a duplicate,
\* excluded, raised, or pending
DiscoveriesAccounted ==
    RunEnded =>
        stats.total_discovered =
            stats.skipped_duplicates + stats.skipped_excluded
            + Cardinality({j \in ThisRunDisc : disc[j].disp = "error"})
            + Len(pending)

\* the verdicts counted are those of the pending items that were triaged
VerdictsAccounted ==
    RunEnded =>
        stats.triage_relevant + stats.triage_maybe + stats.triage_rejected
            = Cardinality({i \in DOMAIN pending : ~Exempt(i)})

\* C37: at the end of a run the statistics account for every discovered
\* item once: total_discovered is the sum of the duplicates, the excluded,
\* the phase-1 item errors and the pending items; the verdict counts sum to
\* the number of pending items that are not exempt from triage; and
\* new_candidates is the number of candidates the run persisted
C37_StatsAccountForEveryItem ==
    RunEnded =>
        /\ stats.total_discovered =
              stats.skipped_duplicates + stats.skipped_excluded
              + Cardinality({j \in ThisRunDisc : disc[j].disp = "error"})
              + Len(pending)
        /\ stats.triage_relevant + stats.triage_maybe + stats.triage_rejected
              = Cardinality({i \in DOMAIN pending : ~Exempt(i)})
        /\ stats.new_candidates = Cardinality(RowsOfRun(store, run))

\* the transcript fetch failed because YouTube blocks the address
IpLevelBlock(msg) ==
    msg = "Could not retrieve a transcript: YouTube is blocking requests from your IP"

\* a video enrichment that made its transcript call, which raised
TranscriptFetchFailed ==
    /\ ecalls' = ecalls + 1 /\ VideoCall(eres') /\ eres'.called
    /\ Get(eres'.meta, "enrichment_failed", "absent") = "True"

\* a transcript fetch that fails with the block message trips the breaker
\* and one that times out does not
BreakerTripsOnBlockNotOnTimeout ==
    [][ (~youtube_blocked /\ TranscriptFetchFailed) =>
           /\ IpLevelBlock(Get(eres'.meta, "enrichment_error", "")) => youtube_blocked'
           /\ Get(eres'.meta, "enrichment_error", "") = "Read timed out"
                  => ~youtube_blocked' ]_vars

\* C39: the breaker trips only on an IP-level block: a transcript fetch
\* that fails for another reason marks its item as failed and leaves the
\* breaker as it was, so later video enrichments make their transcript call
C39_BreakerTripsOnlyOnIpBlock ==
    [][ (~youtube_blocked /\ youtube_blocked') =>
           /\ TranscriptFetchFailed
           /\ IpLevelBlock(Get(eres'.meta, "enrichment_error", "")) ]_vars

\* ---------------------------------------------------------------------------
\* DataScraper._parse_angles_to_items (scrapers.py 823-869): the URLs of the
\* items made of the story angles of one document
\* ---------------------------------------------------------------------------
MaxAngles == 3

NonBlank(pair) == pair.v # ""

\* params = parse_qs(parsed.query); params['angle'] = [str(idx)]: blank
\* values are dropped, an 'angle' key already there keeps its place and
\* loses its values, a new one comes last
SetAngle(q, idx) ==
    LET params == parse_qs(SelectSeq(q, NonBlank))
        at == {i \in DOMAIN params : params[i].k = "angle"}
        first == CHOOSE i \in at : \A j \in at : i <= j
    IN  IF at = {} THEN Append(params, [k |-> "angle", v |-> ToString(idx)])
        ELSE SubSeq(params, 1, first - 1)
             \o <<[k |-> "angle", v |-> ToString(idx)]>>
             \o SeqFilterKeys(SubSeq(params, first, Len(params)), "angle")

\* mutant: the index of the angle is put in the fragment
angle_url_fragment(pdf_url, idx) ==
    [pdf_url EXCEPT !.frag = ToString(idx)]

\* unique_url = urlunparse((scheme, netloc, path, params, urlencode(params), ''))
angle_url(pdf_url, idx) ==
    [pdf_url EXCEPT !.query = SetAngle(pdf_url.query, idx), !.frag = ""]

PdfQueries ==
    {<<>>, <<[k |-> "id", v |-> "1"]>>, <<[k |-> "angle", v |-> "2"]>>,
     <<[k |-> "angle", v |-> "1"], [k |-> "id", v |-> ""],
       [k |-> "angle", v |-> "3"]>>,
     <<[k |-> "ref", v |-> "1"], [k |-> "Angle", v |-> "1"]>>}
PdfUrls ==
    [scheme : {"https"}, netloc : {"gov.org", "A.com"},
     segs : {<<"r.pdf">>, <<"2024", "r.pdf">>}, slashes : {0, 1},
     query : PdfQueries, frag : {"", "page=2"}]

InitAngles ==
    /\ ang_args \in [pdf_url : PdfUrls, angles : 0..MaxAngles]
    /\ ang_ret = NoRes
    /\ NormIdle /\ EnrichIdle /\ TriageIdle /\ ScrapeIdle /\ RunIdle
    /\ CrawlIdle /\ ScoreIdle /\ ProbeIdle /\ ApiIdle /\ RetryIdle /\ FcIdle
    /\ BackfillIdle
    /\ ConfigIdle
    /\ SchedIdle

\* for idx, angle in enumerate(angles, start=1): one item per angle
ParseAnglesToItems ==
    /\ ang_ret = NoRes
    /\ ang_ret' = [items |-> [idx \in 1..ang_args.angles |->
                                 angle_url(ang_args.pdf_url, idx)]]
    /\ UNCHANGED <<ang_args, notAngVars>>

NextAngles == ParseAnglesToItems

SpecAngles == InitAngles /\ [][NextAngles]_vars

\* C32: the k angles of a document give k items, and the hashes of the
\* normalized URLs of two different angles differ, whatever the document's
\* URL, so no angle is taken for an in-run duplicate of another
C32_AnglesHaveDistinctHashes ==
    ang_ret # NoRes =>
       /\ Len(ang_ret.items) = ang_args.angles
       /\ \A i, j \in DOMAIN ang_ret.items :
             i # j => url_hash(ang_ret.items[i]) # url_hash(ang_ret.items[j])

\* C32 witness: three angles of a document whose URL already had angle
\* parameters, a blank parameter and a fragment
C32_Witness ==
    /\ ang_ret # NoRes /\ Len(ang_ret.items) = 3
    /\ Len(ang_args.pdf_url.query) = 3 /\ ang_args.pdf_url.frag # ""
    /\ normalize_url(ang_ret.items[3]).query = <<[k |-> "angle", v |-> "3"]>>

\* ---------------------------------------------------------------------------
\* DataScraper._update_previous_report_data (scrapers.py 871-888): runs that
\* scrape the same source, and an edit of another key of its config
\* ---------------------------------------------------------------------------
NumScrapingRuns == 2
MaxReports == 2
MaxConfigEdits == 2

ScrapingRuns == 1..NumScrapingRuns
Expired == [expired |-> TRUE]

InitConfig ==
    /\ cfg_db = [previous_report_data |-> <<0, 0>>, cadence |-> 0]
    /\ cfg_sess = [r \in ScrapingRuns |-> Expired]
    /\ cfg_log = [previous_report_data |-> <<0, 0>>, cadence |-> 0,
                  reports |-> [r \in ScrapingRuns |-> 0], failed |-> {}]
    /\ NormIdle /\ EnrichIdle /\ TriageIdle /\ ScrapeIdle /\ RunIdle
    /\ CrawlIdle /\ ScoreIdle /\ ProbeIdle /\ ApiIdle /\ RetryIdle /\ FcIdle
    /\ BackfillIdle /\ AnglesIdle
    /\ SchedIdle

\* source.config is read (config = source.config, or the first read of the
\* update after a commit expired the attribute): the session loads the
\* column as it is then, with no lock on the row
LoadConfig(r) ==
    /\ cfg_sess[r] = Expired
    /\ r \notin cfg_log.failed
    /\ cfg_log.reports[r] < MaxReports
    /\ cfg_sess' = [cfg_sess EXCEPT ![r] = cfg_db]
    /\ UNCHANGED <<cfg_db, cfg_log, notCfgVars>>

\* updated_config = dict(source.config); updated_config['previous_report_data']
\* = {...}; source.config = updated_config; db.session.commit(): the whole
\* dict of the session is written to the column
UpdatePreviousReportData(r) ==
    /\ cfg_sess[r] # Expired
    /\ LET data == <<r, cfg_log.reports[r] + 1>>
           updated_config == [cfg_sess[r] EXCEPT !.previous_report_data = data]
       IN  /\ cfg_db' = updated_config
           /\ cfg_log' = [cfg_log EXCEPT !.previous_report_data = data,
                                         !.reports[r] = @ + 1]
    /\ cfg_sess' = [cfg_sess EXCEPT ![r] = Expired]
    /\ UNCHANGED notCfgVars

\* db.session.commit() raises: except Exception logs it, nothing is written
\* and the run's session is left unusable
UpdateCommitRaises(r) ==
    /\ cfg_sess[r] # Expired
    /\ cfg_log' = [cfg_log EXCEPT !.failed = @ \cup {r}]
    /\ cfg_sess' = [cfg_sess EXCEPT ![r] = Expired]
    /\ UNCHANGED <<cfg_db, notCfgVars>>

\* another key of the config is edited and committed, in one step
EditOtherKey ==
    /\ cfg_log.cadence < MaxConfigEdits
    /\ cfg_db' = [cfg_db EXCEPT !.cadence = @ + 1]
    /\ cfg_log' = [cfg_log EXCEPT !.cadence = cfg_db.cadence + 1]
    /\ UNCHANGED <<cfg_sess, notCfgVars>>

NextConfig ==
    \/ \E r \in ScrapingRuns : LoadConfig(r)
    \/ \E r \in ScrapingRuns : UpdatePreviousReportData(r)
    \/ \E r \in ScrapingRuns : UpdateCommitRaises(r)
    \/ EditOtherKey

SpecConfig == InitConfig /\ [][NextConfig]_vars

\* the summary in the column is the one of the last update committed
SummaryIsLastCommitted ==
    cfg_db.previous_report_data = cfg_log.previous_report_data

\* C33: no update of the config is lost: every key of the column holds the
\* value last committed for it, whatever the interleaving of the runs
\* scraping the source and of the edits of another key
C33_NoConfigUpdateLost ==
    /\ cfg_db.previous_report_data = cfg_log.previous_report_data
    /\ cfg_db.cadence = cfg_log.cadence

\* ---------------------------------------------------------------------------
\* check_research_schedules (tasks.py 266-297) and trigger_research
\* (api/routes.py 1085-1103): the research tasks dispatched for a publication
\* ---------------------------------------------------------------------------
RESEARCH_INTERVAL_HOURS == 24
MaxHours == 25
MaxTriggers == 1
NumWorkers == 2
MaxQueued == 2

InitSched ==
    /\ sched \in [now : {0}, swept : {FALSE}, is_active : BOOLEAN,
                  has_sources : BOOLEAN, last_research_run : {NoDate},
                  queued : {0}, running : {0}, triggers : {0}]
    /\ NormIdle /\ EnrichIdle /\ TriageIdle /\ ScrapeIdle /\ RunIdle
    /\ CrawlIdle /\ ScoreIdle /\ ProbeIdle /\ ApiIdle /\ RetryIdle /\ FcIdle
    /\ BackfillIdle /\ AnglesIdle /\ ConfigIdle

\* an hour passes: the beat schedule runs the sweep once in each
HourPasses ==
    /\ sched.now < MaxHours
    /\ sched' = [sched EXCEPT !.now = @ + 1, !.swept = FALSE]
    /\ UNCHANGED notSchVars

\* the filter of the sweep: active, and last_research_run null or at least
\* 24 hours old
DuePublication(pub) ==
    /\ pub.is_active
    /\ \/ pub.last_research_run = NoDate
       \/ pub.last_research_run <= pub.now - RESEARCH_INTERVAL_HOURS

\* check_research_schedules: research_publication_sources.delay(pub.id) for
\* a due publication that has active sources
CheckResearchSchedules ==
    /\ ~sched.swept
    /\ sched.queued < MaxQueued
    /\ sched' = [sched EXCEPT !.swept = TRUE,
                     !.queued = IF DuePublication(sched) /\ sched.has_sources
                                THEN @ + 1 ELSE @]
    /\ UNCHANGED notSchVars

\* trigger_research: research_publication_sources.delay(publication_id)
TriggerResearch ==
    /\ sched.triggers < MaxTriggers
    /\ sched.queued < MaxQueued
    /\ sched' = [sched EXCEPT !.triggers = @ + 1, !.queued = @ + 1]
    /\ UNCHANGED notSchVars

\* a free worker process takes a research task of the publication off the
\* queue
WorkerStartsRun ==
    /\ sched.queued > 0
    /\ sched.running < NumWorkers
    /\ sched' = [sched EXCEPT !.queued = @ - 1, !.running = @ + 1]
    /\ UNCHANGED notSchVars

\* research_publication_sources ends with its commit:
\* publication.last_research_run = datetime.utcnow()
RunCommits ==
    /\ sched.running > 0
    /\ sched.is_active
    /\ sched' = [sched EXCEPT !.running = @ - 1, !.last_research_run = sched.now]
    /\ UNCHANGED notSchVars

\* research_publication_sources ends without it: the publication is
\* inactive, or the execution fails
RunEndsUncommitted ==
    /\ sched.running > 0
    /\ sched' = [sched EXCEPT !.running = @ - 1]
    /\ UNCHANGED notSchVars

NextSched ==
    \/ HourPasses
    \/ CheckResearchSchedules
    \/ TriggerResearch
    \/ WorkerStartsRun
    \/ RunCommits
    \/ RunEndsUncommitted

SpecSched == InitSched /\ [][NextSched]_vars

\* the sweep leaves alone a publication whose last run was committed less
\* than 24 hours ago
SweepSkipsRecentlyRun ==
    [][ (~sched.swept /\ sched'.swept /\ sched.last_research_run # NoDate
         /\ sched.last_research_run > sched.now - RESEARCH_INTERVAL_HOURS)
        => sched'.queued = sched.queued ]_vars

\* C38: at most one research run of a publication is executing at a time:
\* neither the sweep nor the trigger dispatches a run while one dispatched
\* earlier has not finished
C38_OneRunInFlight ==
    sched.running <= 1


=============================================================================
